---- MODULE Spec2Model ----
(***************************************************************************)
(* UPI Matcher: the matching engine (lib/matching), the categorization     *)
(* learning subsystem (lib/categorization) and the App component that      *)
(* stores bank transactions, receipts, matches and category rules.         *)
(*                                                                         *)
(* Conventions of the model                                                *)
(*  - a JavaScript string that the code inspects character by character    *)
(*    (descriptions, merchant names, feedback, patterns, keywords) is a    *)
(*    sequence of one-character strings; toLowerCase, split(/\s+/),        *)
(*    includes, indexOf and slice are computed on that sequence;           *)
(*  - an optional object (suggestedReceipt, receipt?) is a sequence of     *)
(*    length 0 or 1; an optional string (utr, category) is the empty      *)
(*    string when undefined, which is falsy in the code too;               *)
(*  - ids are opaque in the code and are positive integers here, 0 is an   *)
(*    undefined id; amounts are integers in paise, dates are day numbers,  *)
(*    confidences are integers in hundredths (0.95 is 95);                 *)
(*  - fields no modelled operation reads or writes (name, vpa, city,       *)
(*    imageUrl, extractedData) are left out of the records.                *)
(***************************************************************************)
EXTENDS Integers, Sequences, FiniteSets, TLC

VARIABLES
  bankTransactions,   \* App state: useKV 'bank-transactions'
  receipts,           \* App state: useKV 'phonepe-receipts'
  matches,            \* App state: useKV 'transaction-matches'
  categoryRules,      \* App state: useKV 'category-rules'
  showTrainingDialog, \* TransactionMatching state: id of the match in the training dialog, 0 when closed
  clock,              \* Date.now(): time passes with every operation
  pc,                 \* which operation acted last ("rendered": none whose arguments matter)
  call                \* arguments of the operation that acted last

vars == <<bankTransactions, receipts, matches, categoryRules, showTrainingDialog, clock, pc, call>>

----------------------------------------------------------------------------
(* Bounds *)

MaxTxns == 2
MaxReceipts == 2
MaxRuleOps == 2

----------------------------------------------------------------------------
(* Strings *)

UpperToLower ==
  [A |-> "a", B |-> "b", C |-> "c", D |-> "d", E |-> "e", F |-> "f", G |-> "g",
   H |-> "h", I |-> "i", J |-> "j", K |-> "k", L |-> "l", M |-> "m", N |-> "n",
   O |-> "o", P |-> "p", Q |-> "q", R |-> "r", S |-> "s", T |-> "t", U |-> "u",
   V |-> "v", W |-> "w", X |-> "x", Y |-> "y", Z |-> "z"]

toLowerCase(s) ==
  [i \in 1..Len(s) |-> IF s[i] \in DOMAIN UpperToLower THEN UpperToLower[s[i]] ELSE s[i]]

\* String.prototype.includes: sub occurs in s as a contiguous substring
includes(s, sub) ==
  \E i \in 0..(Len(s) - Len(sub)) : SubSeq(s, i + 1, i + Len(sub)) = sub

\* Array.prototype.includes / indexOf >= 0
arrayIncludes(arr, x) == \E i \in 1..Len(arr) : arr[i] = x

\* Array.prototype.slice(0, n) and String.prototype.substring(0, n)
slice(arr, n) == SubSeq(arr, 1, IF Len(arr) < n THEN Len(arr) ELSE n)

MinOf(S) == CHOOSE x \in S : \A y \in S : x <= y

RECURSIVE splitFrom(_, _)
\* the words of s from position i on, where a word starts; a run of
\* whitespace is one separator
splitFrom(s, i) ==
  LET ws == {j \in i..Len(s) : s[j] = " "}
  IN IF ws = {} THEN <<SubSeq(s, i, Len(s))>>
     ELSE LET j    == MinOf(ws)
              rest == {k \in (j + 1)..Len(s) : s[k] # " "}
              next == IF rest = {} THEN Len(s) + 1 ELSE MinOf(rest)
          IN <<SubSeq(s, i, j - 1)>> \o splitFrom(s, next)

\* String.prototype.split(/\s+/): leading or trailing whitespace yields an
\* empty first or last word, the empty string yields one empty word
split(s) == splitFrom(s, 1)

RECURSIVE trimStart(_)
trimStart(s) == IF s # <<>> /\ Head(s) = " " THEN trimStart(Tail(s)) ELSE s

RECURSIVE trimEnd(_)
trimEnd(s) == IF s # <<>> /\ s[Len(s)] = " " THEN trimEnd(SubSeq(s, 1, Len(s) - 1)) ELSE s

\* String.prototype.trim
trim(s) == trimEnd(trimStart(s))

RECURSIVE splitCommaFrom(_, _)
splitCommaFrom(s, i) ==
  LET commas == {j \in i..Len(s) : s[j] = ","}
  IN IF commas = {} THEN <<SubSeq(s, i, Len(s))>>
     ELSE <<SubSeq(s, i, MinOf(commas) - 1)>> \o splitCommaFrom(s, MinOf(commas) + 1)

\* split(',').map(p => p.trim()).filter(p => p.length > 0)
splitList(s) ==
  LET parts == splitCommaFrom(s, 1)
  IN SelectSeq([i \in 1..Len(parts) |-> trim(parts[i])], LAMBDA w : Len(w) > 0)

RECURSIVE unique(_)
\* filter((w, i, arr) => arr.indexOf(w) === i): keeps first occurrences
unique(arr) ==
  IF arr = <<>> THEN <<>>
  ELSE LET front == unique(SubSeq(arr, 1, Len(arr) - 1))
           last  == arr[Len(arr)]
       IN IF arrayIncludes(front, last) THEN front ELSE Append(front, last)

S_UPI_SWIGGY == <<"U","P","I","-","S","W","I","G","G","Y">>
S_UPI == <<"U","P","I">>
S_Swiggy == <<"S","w","i","g","g","y">>
S_KFC == <<"K","F","C">>
S_BULK_TRAINING_MARK == <<"[","B","U","L","K","_","T","R","A","I","N","I","N","G",":">>
S_TRAINING_MARK == <<"[","T","R","A","I","N","I","N","G",":">>
S_CreateNewRule == <<"C","r","e","a","t","e"," ","n","e","w"," ","c","a","t","e","g","o","r","i","z","a","t","i","o","n"," ","r","u","l","e">>
S_CreateBulkRules == <<"C","r","e","a","t","e"," ","b","u","l","k"," ","c","a","t","e","g","o","r","i","z","a","t","i","o","n"," ","r","u","l","e","s">>
S_ThisIsRecurring == <<"T","h","i","s"," ","i","s"," ","a"," ","r","e","c","u","r","r","i","n","g"," ","t","r","a","n","s","a","c","t","i","o","n">>
S_TheseAreRecurring == <<"T","h","e","s","e"," ","a","r","e"," ","r","e","c","u","r","r","i","n","g"," ","t","r","a","n","s","a","c","t","i","o","n","s">>
S_ApplyToSimilar == <<"A","p","p","l","y"," ","t","o"," ","s","i","m","i","l","a","r"," ","f","u","t","u","r","e"," ","t","r","a","n","s","a","c","t","i","o","n","s">>
S_ConfidenceHigh == <<"C","o","n","f","i","d","e","n","c","e",":"," ","h","i","g","h">>
S_ConfidenceLow == <<"C","o","n","f","i","d","e","n","c","e",":"," ","l","o","w">>
S_training == <<"t","r","a","i","n","i","n","g">>
S_system == <<"s","y","s","t","e","m">>
S_transaction == <<"t","r","a","n","s","a","c","t","i","o","n">>
S_payment == <<"p","a","y","m","e","n","t">>
S_BulkApproved == <<"B","u","l","k"," ","a","p","p","r","o","v","e","d"," ","-"," ","h","i","g","h"," ","c","o","n","f","i","d","e","n","c","e"," ","m","a","t","c","h">>
S_TrainingRecurringHigh == <<"[","T","R","A","I","N","I","N","G",":"," ","C","r","e","a","t","e"," ","n","e","w"," ","c","a","t","e","g","o","r","i","z","a","t","i","o","n"," ","r","u","l","e",","," ","T","h","i","s"," ","i","s"," ","a"," ","r","e","c","u","r","r","i","n","g"," ","t","r","a","n","s","a","c","t","i","o","n",","," ","C","o","n","f","i","d","e","n","c","e"," ","l","e","v","e","l",":"," ","h","i","g","h","]">>
S_swiggy == <<"s","w","i","g","g","y">>
S_zomato == <<"z","o","m","a","t","o">>
S_food == <<"f","o","o","d">>
S_delivery == <<"d","e","l","i","v","e","r","y">>
S_amazon == <<"a","m","a","z","o","n">>
S_shopping == <<"s","h","o","p","p","i","n","g">>
S_order == <<"o","r","d","e","r">>
S_kfc_food == <<"k","f","c",","," ","f","o","o","d">>
S_restaurant == <<"r","e","s","t","a","u","r","a","n","t">>
S_uber == <<"u","b","e","r">>
S_ola == <<"o","l","a">>
S_metro == <<"m","e","t","r","o">>
S_petrol == <<"p","e","t","r","o","l">>
S_fuel == <<"f","u","e","l">>
S_flipkart == <<"f","l","i","p","k","a","r","t">>
S_shop == <<"s","h","o","p">>
S_mall == <<"m","a","l","l">>
S_netflix == <<"n","e","t","f","l","i","x">>
S_spotify == <<"s","p","o","t","i","f","y">>
S_entertainment == <<"e","n","t","e","r","t","a","i","n","m","e","n","t">>
S_movie == <<"m","o","v","i","e">>
S_electric == <<"e","l","e","c","t","r","i","c">>
S_gas == <<"g","a","s">>
S_water == <<"w","a","t","e","r">>
S_bill == <<"b","i","l","l">>
S_utility == <<"u","t","i","l","i","t","y">>
S_hospital == <<"h","o","s","p","i","t","a","l">>
S_medical == <<"m","e","d","i","c","a","l">>
S_pharmacy == <<"p","h","a","r","m","a","c","y">>
S_doctor == <<"d","o","c","t","o","r">>
S_school == <<"s","c","h","o","o","l">>
S_education == <<"e","d","u","c","a","t","i","o","n">>
S_course == <<"c","o","u","r","s","e">>
S_fee == <<"f","e","e">>
S_DemoDesc1 == <<"U","P","I","-","S","W","I","G","G","Y","-","M","E","R","C","H","A","N","T","@","P","A","Y","T","M">>
S_DemoDesc2 == <<"U","P","I","-","Z","O","M","A","T","O"," ","O","N","L","I","N","E","-","Z","O","M","A","T","O","@","P","A","Y","T","M">>
S_ZomatoOnline == <<"Z","o","m","a","t","o"," ","O","n","l","i","n","e">>
S_Snacks == <<"S","n","a","c","k","s">>

----------------------------------------------------------------------------
(* lib/matching *)

NoReceipt == <<>>

\* mutant of calculateMatchScore: the weights of the date and of the UTR are exchanged
calculateMatchScore_UtrAboveDate(criteria) ==
  LET s1 == IF criteria.exactAmountMatch THEN 40 ELSE 0
      r1 == IF criteria.exactAmountMatch THEN <<"Exact amount match">> ELSE <<>>
      s2 == IF criteria.dateMatch THEN 25 ELSE 0
      r2 == IF criteria.dateMatch THEN <<"Date match">> ELSE <<>>
      s3 == IF criteria.utrMatch THEN 30 ELSE 0
      r3 == IF criteria.utrMatch THEN <<"UTR match">> ELSE <<>>
      s4 == IF criteria.merchantMatch THEN 15 ELSE 0
      r4 == IF criteria.merchantMatch THEN <<"Merchant match">> ELSE <<>>
  IN [score |-> s1 + s2 + s3 + s4, reasons |-> r1 \o r2 \o r3 \o r4]

calculateMatchScore(criteria) ==
  LET s1 == IF criteria.exactAmountMatch THEN 40 ELSE 0
      r1 == IF criteria.exactAmountMatch THEN <<"Exact amount match">> ELSE <<>>
      s2 == IF criteria.dateMatch THEN 30 ELSE 0
      r2 == IF criteria.dateMatch THEN <<"Date match">> ELSE <<>>
      s3 == IF criteria.utrMatch THEN 25 ELSE 0
      r3 == IF criteria.utrMatch THEN <<"UTR match">> ELSE <<>>
      s4 == IF criteria.merchantMatch THEN 15 ELSE 0
      r4 == IF criteria.merchantMatch THEN <<"Merchant match">> ELSE <<>>
  IN [score |-> s1 + s2 + s3 + s4, reasons |-> r1 \o r2 \o r3 \o r4]

\* mutant of isSameDate: dates one day apart count as the same date
isSameDate_WithinOneDay(date1, date2) == date1 - date2 \in {0 - 1, 0, 1}

\* dates are day numbers: toDateString() agrees exactly on the same day
isSameDate(date1, date2) == date1 = date2

checkMerchantMatch(description, merchant) ==
  IF description = <<>> \/ merchant = <<>> THEN FALSE
  ELSE LET descWords     == split(toLowerCase(description))
           merchantWords == split(toLowerCase(merchant))
       IN \E i \in 1..Len(merchantWords) :
            /\ Len(merchantWords[i]) > 3
            /\ \E j \in 1..Len(descWords) :
                 \/ includes(descWords[j], merchantWords[i])
                 \/ includes(merchantWords[i], descWords[j])

Abs(x) == IF x < 0 THEN -x ELSE x

matchCriteria(bankTxn, receipt) ==
  [exactAmountMatch |-> Abs(bankTxn.amount - receipt.amount) < 1,
   dateMatch        |-> isSameDate(bankTxn.date, receipt.date),
   utrMatch         |-> bankTxn.utr # "" /\ receipt.utr # "" /\ bankTxn.utr = receipt.utr,
   merchantMatch    |-> checkMerchantMatch(bankTxn.description, receipt.merchant)]

pairScore(bankTxn, receipt) == calculateMatchScore(matchCriteria(bankTxn, receipt))

\* mutant of improvesBestMatch: the minimum score threshold is 20
improvesBestMatch_LowThreshold(score, bestMatch) ==
  score >= 20 /\ (bestMatch = <<>> \/ score > bestMatch[1].score)

\* mutant of improvesBestMatch: a later receipt of equal score replaces the earlier one
improvesBestMatch_LaterWinsTies(score, bestMatch) ==
  score >= 40 /\ (bestMatch = <<>> \/ score >= bestMatch[1].score)

\* score >= 40 && (!bestMatch || score > bestMatch.score)
improvesBestMatch(score, bestMatch) ==
  score >= 40 /\ (bestMatch = <<>> \/ score > bestMatch[1].score)

RECURSIVE findBestMatchFrom(_, _, _, _)
\* the for loop of findBestMatch from index i on; bestMatch is <<>> or one
\* [receipt, score, reasons]
findBestMatchFrom(bankTxn, rs, i, bestMatch) ==
  IF i > Len(rs) THEN bestMatch
  ELSE IF rs[i].matched THEN findBestMatchFrom(bankTxn, rs, i + 1, bestMatch)
  ELSE LET sr == pairScore(bankTxn, rs[i])
       IN IF improvesBestMatch(sr.score, bestMatch)
          THEN findBestMatchFrom(bankTxn, rs, i + 1,
                 <<[receipt |-> rs[i], score |-> sr.score, reasons |-> sr.reasons]>>)
          ELSE findBestMatchFrom(bankTxn, rs, i + 1, bestMatch)

findBestMatch(bankTxn, rs) == findBestMatchFrom(bankTxn, rs, 1, <<>>)

\* Array.prototype.findIndex(r => r.id === id), 0 when there is none
findIndexById(rs, id) ==
  IF \E i \in 1..Len(rs) : rs[i].id = id
  THEN CHOOSE i \in 1..Len(rs) : rs[i].id = id /\ \A j \in 1..(i - 1) : rs[j].id # id
  ELSE 0

\* mutant of markConsumed: the selected receipt stays available
markConsumed_NotMarked(availableReceipts, receipt) == availableReceipts

\* availableReceipts[receiptIndex] = { ...bestMatch.receipt, matched: true }
markConsumed(availableReceipts, receipt) ==
  LET receiptIndex == findIndexById(availableReceipts, receipt.id)
  IN IF receiptIndex >= 1
     THEN [availableReceipts EXCEPT ![receiptIndex] = [receipt EXCEPT !.matched = TRUE]]
     ELSE availableReceipts

RECURSIVE insertByScore(_, _)
\* position of m in a list sorted by descending matchScore, after its equals
insertByScore(sorted, m) ==
  IF sorted = <<>> THEN <<m>>
  ELSE IF Head(sorted).matchScore >= m.matchScore
       THEN <<Head(sorted)>> \o insertByScore(Tail(sorted), m)
       ELSE <<m>> \o sorted

RECURSIVE sortByScoreDesc(_)
\* matches.sort((a, b) => b.matchScore - a.matchScore), a stable sort
sortByScoreDesc(ms) ==
  IF ms = <<>> THEN <<>>
  ELSE insertByScore(sortByScoreDesc(SubSeq(ms, 1, Len(ms) - 1)), ms[Len(ms)])

RECURSIVE matchLoop(_, _, _, _)
\* the for loop of generateMatches over unmatchedBankTxns from index i on
matchLoop(unmatchedBankTxns, i, availableReceipts, acc) ==
  IF i > Len(unmatchedBankTxns) THEN acc
  ELSE LET bankTxn   == unmatchedBankTxns[i]
           bestMatch == findBestMatch(bankTxn, availableReceipts)
       IN IF bestMatch # <<>>
          THEN matchLoop(unmatchedBankTxns, i + 1,
                 markConsumed(availableReceipts, bestMatch[1].receipt),
                 Append(acc, [bankTransaction  |-> bankTxn,
                              suggestedReceipt |-> <<bestMatch[1].receipt>>,
                              matchScore       |-> bestMatch[1].score,
                              matchReasons     |-> bestMatch[1].reasons,
                              status           |-> "pending"]))
          ELSE matchLoop(unmatchedBankTxns, i + 1, availableReceipts,
                 Append(acc, [bankTransaction  |-> bankTxn,
                              suggestedReceipt |-> NoReceipt,
                              matchScore       |-> 0,
                              matchReasons     |-> <<"No suitable match found">>,
                              status           |-> "pending"]))

\* mutant of IsUnmatched: matched transactions are not filtered out
IsUnmatched_KeepsAll(txn) == TRUE

\* bankTransactions.filter(txn => !txn.matched)
IsUnmatched(txn) == ~txn.matched

\* mutant of generateMatches: the entries are returned in processing order
generateMatches_Unsorted(txns, rs) ==
  matchLoop(SelectSeq(txns, IsUnmatched), 1, rs, <<>>)

generateMatches(txns, rs) ==
  sortByScoreDesc(matchLoop(SelectSeq(txns, IsUnmatched), 1, rs, <<>>))

----------------------------------------------------------------------------
(* generateMatches as a function of its two arguments *)

TxnPool ==
  [id: {0}, date: {1}, amount: {10000}, description: {S_UPI_SWIGGY, S_UPI},
   utr: {"u1"}, category: {""}, matched: BOOLEAN, matchedReceiptId: {0}]

ReceiptPool ==
  [id: {0}, date: {1, 2}, amount: {10000, 25000}, merchant: {S_Swiggy},
   utr: {"u1"}, category: {""}, matched: BOOLEAN]

\* transactions get the ids 1..n in list order
TxnInputs ==
  UNION {{[i \in 1..n |-> [l[i] EXCEPT !.id = i]] : l \in [1..n -> TxnPool]} : n \in 0..MaxTxns}

\* receipt i gets the id i or, for the last receipt when dup, the id of the
\* first receipt
ReceiptInputs ==
  UNION {{[i \in 1..n |-> [l[i] EXCEPT !.id = IF dup /\ i = n THEN 1 ELSE i]] :
            l \in [1..n -> ReceiptPool], dup \in BOOLEAN} : n \in 0..MaxReceipts}

InitMatch ==
  /\ bankTransactions \in TxnInputs
  /\ receipts \in ReceiptInputs
  /\ matches = <<>>
  /\ categoryRules = <<>>
  /\ showTrainingDialog = 0
  /\ clock = 0
  /\ pc = "input"
  /\ call = <<>>

GenerateMatchesCall ==
  /\ pc = "input"
  /\ matches' = generateMatches(bankTransactions, receipts)
  /\ pc' = "generateMatches"
  /\ UNCHANGED <<bankTransactions, receipts, categoryRules, showTrainingDialog, clock, call>>

NextMatch == GenerateMatchesCall

SpecMatch == InitMatch /\ [][NextMatch]_vars

DistinctIds(list) == \A i, j \in 1..Len(list) : list[i].id = list[j].id => i = j

\* C1: when the receipts passed to generateMatches have pairwise distinct
\* ids, no two entries of the returned list suggest a receipt with the same id
C1_NoReceiptSuggestedTwice ==
  (pc = "generateMatches" /\ DistinctIds(receipts)) =>
    \A i, j \in 1..Len(matches) :
      (/\ i # j
       /\ matches[i].suggestedReceipt # NoReceipt
       /\ matches[j].suggestedReceipt # NoReceipt)
      => matches[i].suggestedReceipt[1].id # matches[j].suggestedReceipt[1].id

\* two transactions both got a suggestion out of receipts with distinct ids,
\* and the first receipt scored at least 40 for both of them
C1_Witness ==
  /\ pc = "generateMatches"
  /\ DistinctIds(receipts)
  /\ Len(matches) = 2
  /\ matches[1].suggestedReceipt # NoReceipt
  /\ matches[2].suggestedReceipt # NoReceipt
  /\ pairScore(matches[1].bankTransaction, receipts[1]).score >= 40
  /\ pairScore(matches[2].bankTransaction, receipts[1]).score >= 40

\* C9: the output of generateMatches has exactly one entry for each input
\* transaction whose matched flag is not true and none for a matched one
C9_OneEntryPerUnmatchedTxn ==
  pc = "generateMatches" =>
    \A k \in 1..Len(bankTransactions) :
      Cardinality({i \in 1..Len(matches) : matches[i].bankTransaction = bankTransactions[k]})
        = IF bankTransactions[k].matched THEN 0 ELSE 1

C9_Witness ==
  /\ pc = "generateMatches"
  /\ Len(bankTransactions) = 2
  /\ bankTransactions[1].matched
  /\ ~bankTransactions[2].matched
  /\ Len(matches) = 1

\* C10: every entry returned by generateMatches either has no suggested
\* receipt, score 0 and one reason, or has a receipt and a score in 40..110
C10_ScoreZeroOrAtLeastThreshold ==
  pc = "generateMatches" =>
    \A i \in 1..Len(matches) :
      \/ /\ matches[i].suggestedReceipt = NoReceipt
         /\ matches[i].matchScore = 0
         /\ Len(matches[i].matchReasons) = 1
      \/ /\ matches[i].suggestedReceipt # NoReceipt
         /\ matches[i].matchScore >= 40
         /\ matches[i].matchScore <= 110

\* one transaction got no suggestion although a free receipt scored 25 for
\* it, another one got a receipt with the threshold score 40
C10_Witness ==
  /\ pc = "generateMatches"
  /\ \E i, j \in 1..Len(matches) :
       /\ matches[i].suggestedReceipt = NoReceipt
       /\ \E k \in 1..Len(receipts) :
            /\ ~receipts[k].matched
            /\ pairScore(matches[i].bankTransaction, receipts[k]).score \in 1..39
       /\ matches[j].suggestedReceipt # NoReceipt
       /\ matches[j].matchScore = 40

\* C16: the list returned by generateMatches is ordered by non-increasing
\* matchScore
C16_SortedByDescendingScore ==
  pc = "generateMatches" =>
    \A i, j \in 1..Len(matches) : i < j => matches[i].matchScore >= matches[j].matchScore

\* the second transaction scored higher than the first one and comes first
C16_Witness ==
  /\ pc = "generateMatches"
  /\ Len(matches) = 2
  /\ matches[1].bankTransaction.id = 2
  /\ matches[2].bankTransaction.id = 1
  /\ matches[1].matchScore > matches[2].matchScore
  /\ matches[2].matchScore >= 40

\* the transactions generateMatches processes, in input order
UnmatchedTxns == SelectSeq(bankTransactions, IsUnmatched)

RECURSIVE GreedyChoice(_)
\* the position in receipts of the receipt the k-th processed transaction is
\* to get, 0 for none: the first one, among the receipts not flagged matched
\* and not chosen for an earlier transaction, whose score is the maximum over
\* those receipts and at least 40
GreedyChoice(k) ==
  LET taken == {GreedyChoice(j) : j \in 1..(k - 1)}
      free  == {i \in 1..Len(receipts) : ~receipts[i].matched /\ i \notin taken}
      score(i) == pairScore(UnmatchedTxns[k], receipts[i]).score
      best  == {i \in free : score(i) >= 40 /\ \A j \in free : score(j) <= score(i)}
  IN IF best = {} THEN 0 ELSE MinOf(best)

\* the entry of the k-th processed transaction carries the receipt of GreedyChoice
GreedyEntry(k) ==
  \E i \in 1..Len(matches) :
    /\ matches[i].bankTransaction = UnmatchedTxns[k]
    /\ matches[i].suggestedReceipt =
         IF GreedyChoice(k) = 0 THEN NoReceipt ELSE <<receipts[GreedyChoice(k)]>>
    /\ matches[i].matchScore =
         IF GreedyChoice(k) = 0 THEN 0
         ELSE pairScore(UnmatchedTxns[k], receipts[GreedyChoice(k)]).score

EntryOf(t) == CHOOSE i \in 1..Len(matches) : matches[i].bankTransaction = t

\* C18: generateMatches is greedy in input order: with receipts of distinct
\* ids, a receipt suggested for a transaction is never suggested for a later
\* one, however much higher it scores for the later one
C18_EarlierTransactionKeepsReceipt ==
  (pc = "generateMatches" /\ DistinctIds(receipts)) =>
    \A k1, k2 \in 1..Len(UnmatchedTxns) :
      (/\ k1 < k2
       /\ matches[EntryOf(UnmatchedTxns[k1])].suggestedReceipt # NoReceipt)
      => matches[EntryOf(UnmatchedTxns[k2])].suggestedReceipt
           # matches[EntryOf(UnmatchedTxns[k1])].suggestedReceipt

\* t1 before t2 and a receipt r: r is suggested for t1 although
\* score(t2, r) > score(t1, r) >= 40, and t2 gets a receipt that scores less
\* than r does for it, or none
C18_Witness ==
  /\ pc = "generateMatches"
  /\ DistinctIds(receipts)
  /\ \E k1, k2 \in 1..Len(UnmatchedTxns) :
       /\ k1 < k2
       /\ matches[EntryOf(UnmatchedTxns[k1])].suggestedReceipt # NoReceipt
       /\ LET r == matches[EntryOf(UnmatchedTxns[k1])].suggestedReceipt[1]
          IN /\ pairScore(UnmatchedTxns[k2], r).score > pairScore(UnmatchedTxns[k1], r).score
             /\ pairScore(UnmatchedTxns[k1], r).score >= 40
             /\ matches[EntryOf(UnmatchedTxns[k2])].matchScore < pairScore(UnmatchedTxns[k2], r).score

\* what one criterion adds to the score of a pair that meets it
amountContribution(criteria) ==
  calculateMatchScore(criteria).score
    - calculateMatchScore([criteria EXCEPT !.exactAmountMatch = FALSE]).score

dateContribution(criteria) ==
  calculateMatchScore(criteria).score
    - calculateMatchScore([criteria EXCEPT !.dateMatch = FALSE]).score

utrContribution(criteria) ==
  calculateMatchScore(criteria).score
    - calculateMatchScore([criteria EXCEPT !.utrMatch = FALSE]).score

merchantContribution(criteria) ==
  calculateMatchScore(criteria).score
    - calculateMatchScore([criteria EXCEPT !.merchantMatch = FALSE]).score

\* C19: for a pair that meets all four criteria the contributions to its
\* score are strictly ordered amount > UTR > date > merchant
C19_UtrWeightSecondHighest ==
  pc = "generateMatches" =>
    \A t \in 1..Len(bankTransactions), r \in 1..Len(receipts) :
      LET c == matchCriteria(bankTransactions[t], receipts[r])
      IN (c.exactAmountMatch /\ c.dateMatch /\ c.utrMatch /\ c.merchantMatch)
           => /\ amountContribution(c) > utrContribution(c)
              /\ utrContribution(c) > dateContribution(c)
              /\ dateContribution(c) > merchantContribution(c)

\* C19 amended: for a pair that meets all four criteria the contributions
\* are 40 for the amount, 30 for the date, 25 for the UTR and 15 for the
\* merchant: amount > date > UTR > merchant, the UTR being third
C19_DateWeightAboveUtrWeight ==
  pc = "generateMatches" =>
    \A t \in 1..Len(bankTransactions), r \in 1..Len(receipts) :
      LET c == matchCriteria(bankTransactions[t], receipts[r])
      IN (c.exactAmountMatch /\ c.dateMatch /\ c.utrMatch /\ c.merchantMatch)
           => /\ amountContribution(c) = 40
              /\ dateContribution(c) = 30
              /\ utrContribution(c) = 25
              /\ merchantContribution(c) = 15
              /\ pairScore(bankTransactions[t], receipts[r]).score = 110

\* a transaction was given a receipt that meets all four criteria, with score 110
C19_Witness ==
  /\ pc = "generateMatches"
  /\ \E i \in 1..Len(matches) :
       /\ matches[i].suggestedReceipt # NoReceipt
       /\ matches[i].matchScore = 110
       /\ LET c == matchCriteria(matches[i].bankTransaction, matches[i].suggestedReceipt[1])
          IN c.exactAmountMatch /\ c.dateMatch /\ c.utrMatch /\ c.merchantMatch

----------------------------------------------------------------------------
(* lib/categorization *)

NoMetadata ==
  [isRecurring |-> FALSE, applyToSimilar |-> FALSE, isBulkTrained |-> FALSE,
   trainingFeedback |-> <<>>, lastTrainingUpdate |-> 0, createdFromTraining |-> FALSE,
   confidenceLevel |-> "", lastCorrected |-> 0, correctionCount |-> 0]

\* the first rule of each of two categories of DEFAULT_RULES, with the
\* patterns and keywords the modelled texts can hit
DEFAULT_RULES ==
  << [category |-> "Food & Dining", patterns |-> <<S_zomato, S_swiggy>>,
      keywords |-> <<S_food, S_delivery>>, confidence |-> 90, createdBy |-> "system"],
     [category |-> "Shopping", patterns |-> <<S_amazon>>,
      keywords |-> <<S_shopping, S_order>>, confidence |-> 90, createdBy |-> "system"] >>

\* the random suffix makes the id fresh: the model takes the next unused number
generateRuleId(now) == now

\* rule i of DEFAULT_RULES gets the id i
initializeDefaultRules ==
  [i \in 1..Len(DEFAULT_RULES) |->
     [id |-> generateRuleId(i), category |-> DEFAULT_RULES[i].category,
      patterns |-> DEFAULT_RULES[i].patterns, keywords |-> DEFAULT_RULES[i].keywords,
      confidence |-> DEFAULT_RULES[i].confidence, createdBy |-> DEFAULT_RULES[i].createdBy,
      usageCount |-> 0, lastUsed |-> 0, metadata |-> NoMetadata]]

Min(a, b) == IF a < b THEN a ELSE b
Max(a, b) == IF a > b THEN a ELSE b

LongerThan3(word) == Len(word) > 3

\* word.length > 3 && !word.includes('[') && !word.includes(':')
IsFeedbackKeyword(word) == Len(word) > 3 /\ ~includes(word, <<"[">>) /\ ~includes(word, <<":">>)

\* !['training', 'system', 'transaction', 'payment'].includes(word)
NotNoiseWord(word) == word \notin {S_training, S_system, S_transaction, S_payment}

\* receipt?.merchant || ''
merchantNameOf(receipt) == IF receipt = <<>> THEN <<>> ELSE receipt[1].merchant

isBulkTrainingOf(trainingFeedback) == includes(trainingFeedback, S_BULK_TRAINING_MARK)

shouldCreateRuleOf(trainingFeedback) ==
  \/ ~includes(trainingFeedback, S_TRAINING_MARK)
  \/ ~includes(trainingFeedback, S_BULK_TRAINING_MARK)
  \/ includes(trainingFeedback, S_CreateNewRule)
  \/ includes(trainingFeedback, S_CreateBulkRules)

isRecurringOf(trainingFeedback) ==
  includes(trainingFeedback, S_ThisIsRecurring) \/ includes(trainingFeedback, S_TheseAreRecurring)

applyToSimilarOf(trainingFeedback) == includes(trainingFeedback, S_ApplyToSimilar)

confidenceLevelOf(trainingFeedback) ==
  IF includes(trainingFeedback, S_ConfidenceHigh) THEN "high"
  ELSE IF includes(trainingFeedback, S_ConfidenceLow) THEN "low" ELSE "medium"

allKeywordsOf(transaction, receipt, trainingFeedback) ==
  LET baseKeywords ==
        SelectSeq(split(toLowerCase(merchantNameOf(receipt))), LongerThan3)
        \o SelectSeq(split(toLowerCase(transaction.description)), LongerThan3)
      feedbackKeywords ==
        IF trainingFeedback # <<>>
        THEN slice(SelectSeq(split(toLowerCase(trainingFeedback)), IsFeedbackKeyword), 3)
        ELSE <<>>
  IN SelectSeq(unique(baseKeywords \o feedbackKeywords), NotNoiseWord)

\* mutant of baseConfidenceOf: the boosts are added without the cap
baseConfidenceOf_Uncapped(trainingFeedback) ==
  LET level == confidenceLevelOf(trainingFeedback)
      c0 == IF level = "high" THEN 90 ELSE IF level = "low" THEN 50 ELSE 70
      c1 == IF isRecurringOf(trainingFeedback) THEN c0 + 10 ELSE c0
  IN IF isBulkTrainingOf(trainingFeedback) /\ applyToSimilarOf(trainingFeedback)
     THEN c1 + 5 ELSE c1

\* 0.5 / 0.7 / 0.9, + 0.1 when recurring, + 0.05 for bulk training that
\* applies to similar transactions, each sum capped at 0.95 (decimal arithmetic)
baseConfidenceOf(trainingFeedback) ==
  LET level == confidenceLevelOf(trainingFeedback)
      c0 == IF level = "high" THEN 90 ELSE IF level = "low" THEN 50 ELSE 70
      c1 == IF isRecurringOf(trainingFeedback) THEN Min(95, c0 + 10) ELSE c0
  IN IF isBulkTrainingOf(trainingFeedback) /\ applyToSimilarOf(trainingFeedback)
     THEN Min(95, c1 + 5) ELSE c1

\* mutant of canEnhance: rules of any creator are enhanced
canEnhance_AnyCreator(rule, approvedCategory, allKeywords, merchantName) ==
  /\ rule.category = approvedCategory
  /\ \/ \E k \in 1..Len(allKeywords) :
          \/ arrayIncludes(rule.keywords, allKeywords[k])
          \/ \E p \in 1..Len(rule.patterns) : includes(rule.patterns[p], allKeywords[k])
     \/ /\ merchantName # <<>>
        /\ \E p \in 1..Len(rule.patterns) : includes(rule.patterns[p], toLowerCase(merchantName))

\* the predicate of updatedRules.find(...) that selects the rule to enhance
canEnhance(rule, approvedCategory, allKeywords, merchantName) ==
  /\ rule.category = approvedCategory
  /\ rule.createdBy = "user"
  /\ \/ \E k \in 1..Len(allKeywords) :
          \/ arrayIncludes(rule.keywords, allKeywords[k])
          \/ \E p \in 1..Len(rule.patterns) : includes(rule.patterns[p], allKeywords[k])
     \/ /\ merchantName # <<>>
        /\ \E p \in 1..Len(rule.patterns) : includes(rule.patterns[p], toLowerCase(merchantName))

\* index of the rule updatedRules.find(...) returns, 0 when it returns undefined
existingRuleIndex(rules, approvedCategory, allKeywords, merchantName) ==
  IF \E i \in 1..Len(rules) : canEnhance(rules[i], approvedCategory, allKeywords, merchantName)
  THEN CHOOSE i \in 1..Len(rules) :
         /\ canEnhance(rules[i], approvedCategory, allKeywords, merchantName)
         /\ \A j \in 1..(i - 1) : ~canEnhance(rules[j], approvedCategory, allKeywords, merchantName)
  ELSE 0

NotIn(arr, items) == SelectSeq(items, LAMBDA k : ~arrayIncludes(arr, k))

\* mutant of enhancedRule: the keyword and pattern lists grow without a cap
enhancedRule_Uncapped(existingRule, allKeywords, merchantName, trainingFeedback, now) ==
  [existingRule EXCEPT
     !.keywords   = existingRule.keywords \o NotIn(existingRule.keywords, allKeywords),
     !.patterns   = IF merchantName # <<>>
                    THEN unique(Append(existingRule.patterns, toLowerCase(merchantName)))
                    ELSE existingRule.patterns,
     !.usageCount = existingRule.usageCount + 1,
     !.lastUsed   = now,
     !.confidence = Min(95, Max(existingRule.confidence, baseConfidenceOf(trainingFeedback))),
     !.metadata   = [existingRule.metadata EXCEPT
                       !.isRecurring = isRecurringOf(trainingFeedback),
                       !.applyToSimilar = applyToSimilarOf(trainingFeedback),
                       !.isBulkTrained = isBulkTrainingOf(trainingFeedback),
                       !.trainingFeedback = slice(trainingFeedback, 200),
                       !.lastTrainingUpdate = now]]

enhancedRule(existingRule, allKeywords, merchantName, trainingFeedback, now) ==
  [existingRule EXCEPT
     !.keywords   = slice(existingRule.keywords \o NotIn(existingRule.keywords, allKeywords), 15),
     !.patterns   = IF merchantName # <<>>
                    THEN slice(unique(Append(existingRule.patterns, toLowerCase(merchantName))), 10)
                    ELSE existingRule.patterns,
     !.usageCount = existingRule.usageCount + 1,
     !.lastUsed   = now,
     !.confidence = Min(95, Max(existingRule.confidence, baseConfidenceOf(trainingFeedback))),
     !.metadata   = [existingRule.metadata EXCEPT
                       !.isRecurring = isRecurringOf(trainingFeedback),
                       !.applyToSimilar = applyToSimilarOf(trainingFeedback),
                       !.isBulkTrained = isBulkTrainingOf(trainingFeedback),
                       !.trainingFeedback = slice(trainingFeedback, 200),
                       !.lastTrainingUpdate = now]]

newRule(approvedCategory, allKeywords, merchantName, trainingFeedback, now) ==
  [id |-> generateRuleId(now),
   category |-> approvedCategory,
   patterns |-> IF merchantName # <<>> THEN <<toLowerCase(merchantName)>> ELSE <<>>,
   keywords |-> slice(allKeywords, 10),
   confidence |-> baseConfidenceOf(trainingFeedback),
   createdBy |-> "user",
   usageCount |-> 1,
   lastUsed |-> now,
   metadata |-> [NoMetadata EXCEPT
                   !.isRecurring = isRecurringOf(trainingFeedback),
                   !.applyToSimilar = applyToSimilarOf(trainingFeedback),
                   !.isBulkTrained = isBulkTrainingOf(trainingFeedback),
                   !.trainingFeedback = slice(trainingFeedback, 200),
                   !.createdFromTraining = TRUE,
                   !.confidenceLevel = confidenceLevelOf(trainingFeedback)]]

\* transaction.category || receipt?.category
autoDetectedCategoryOf(transaction, receipt) ==
  IF transaction.category # "" THEN transaction.category
  ELSE IF receipt = <<>> THEN "" ELSE receipt[1].category

matchesCurrentTransaction(rule, allKeywords, merchantName) ==
  \/ \E k \in 1..Len(allKeywords) : arrayIncludes(rule.keywords, allKeywords[k])
  \/ /\ merchantName # <<>>
     /\ \E p \in 1..Len(rule.patterns) : includes(rule.patterns[p], toLowerCase(merchantName))

\* mutant of penalized: the confidence is lowered without the floor
penalized_NoFloor(rule, autoDetectedCategory, approvedCategory, allKeywords, merchantName, now) ==
  IF /\ autoDetectedCategory # ""
     /\ autoDetectedCategory # approvedCategory
     /\ rule.category = autoDetectedCategory
     /\ matchesCurrentTransaction(rule, allKeywords, merchantName)
  THEN [rule EXCEPT !.confidence = rule.confidence - 10,
                    !.metadata = [rule.metadata EXCEPT
                                    !.lastCorrected = now,
                                    !.correctionCount = rule.metadata.correctionCount + 1]]
  ELSE rule

\* the body of updatedRules.forEach(rule => ...), which assigns to rule
penalized(rule, autoDetectedCategory, approvedCategory, allKeywords, merchantName, now) ==
  IF /\ autoDetectedCategory # ""
     /\ autoDetectedCategory # approvedCategory
     /\ rule.category = autoDetectedCategory
     /\ matchesCurrentTransaction(rule, allKeywords, merchantName)
  THEN [rule EXCEPT !.confidence = Max(30, rule.confidence - 10),
                    !.metadata = [rule.metadata EXCEPT
                                    !.lastCorrected = now,
                                    !.correctionCount = rule.metadata.correctionCount + 1]]
  ELSE rule

\* where the call leaves its rule: the index of the enhanced rule, the index
\* of the pushed rule, or 0 when it neither enhances nor creates
learnedRuleIndex(transaction, receipt, approvedCategory, existingRules, trainingFeedback) ==
  LET allKeywords == allKeywordsOf(transaction, receipt, trainingFeedback)
      idx == existingRuleIndex(existingRules, approvedCategory, allKeywords, merchantNameOf(receipt))
  IN IF ~shouldCreateRuleOf(trainingFeedback) THEN 0
     ELSE IF idx # 0 THEN idx ELSE Len(existingRules) + 1

\* rules is the returned list; existing is the argument list after the call:
\* forEach assigns to the rule objects, which the argument list shares except
\* for the enhanced one
learnFromApprovedMatch(transaction, receipt, approvedCategory, existingRules, trainingFeedback, now) ==
  LET merchantName == merchantNameOf(receipt)
      allKeywords  == allKeywordsOf(transaction, receipt, trainingFeedback)
      shouldCreateRule == shouldCreateRuleOf(trainingFeedback)
      idx == existingRuleIndex(existingRules, approvedCategory, allKeywords, merchantName)
      updatedRules ==
        IF idx # 0 /\ shouldCreateRule
        THEN [existingRules EXCEPT ![findIndexById(existingRules, existingRules[idx].id)] =
                enhancedRule(existingRules[idx], allKeywords, merchantName, trainingFeedback, now)]
        ELSE IF shouldCreateRule
        THEN Append(existingRules,
                    newRule(approvedCategory, allKeywords, merchantName, trainingFeedback, now))
        ELSE existingRules
      auto == autoDetectedCategoryOf(transaction, receipt)
      Pen(list) == [i \in 1..Len(list) |->
                      penalized(list[i], auto, approvedCategory, allKeywords, merchantName, now)]
  IN IF allKeywords = <<>> /\ ~shouldCreateRule
     THEN [rules |-> existingRules, existing |-> existingRules]
     ELSE [rules |-> Pen(updatedRules),
           existing |-> [i \in 1..Len(existingRules) |->
                           IF idx # 0 /\ shouldCreateRule
                              /\ i = findIndexById(existingRules, existingRules[idx].id)
                           THEN existingRules[i]
                           ELSE Pen(existingRules)[i]]]

updateRuleUsage(rules, ruleId, now) ==
  [i \in 1..Len(rules) |->
     IF rules[i].id = ruleId
     THEN [rules[i] EXCEPT !.usageCount = rules[i].usageCount + 1, !.lastUsed = now]
     ELSE rules[i]]

----------------------------------------------------------------------------
(* CategoryRulesManager *)

\* the rule handleAddRule appends, <<>> when the form is rejected
addedRule(form, now) ==
  IF trim(form.name) = <<>> \/ form.category = "" THEN <<>>
  ELSE << [id |-> generateRuleId(now),
           category |-> form.category,
           patterns |-> splitList(form.patterns),
           keywords |-> splitList(form.keywords),
           confidence |-> 80,
           createdBy |-> "user",
           usageCount |-> 0,
           lastUsed |-> 0,
           metadata |-> NoMetadata] >>

\* mutant of handleDeleteRule: system rules are deleted like user rules
handleDeleteRule_NoGuard(rules, ruleId) == SelectSeq(rules, LAMBDA r : r.id # ruleId)

\* the list handleDeleteRule passes to onRulesUpdate; the list itself when it
\* returns early
handleDeleteRule(rules, ruleId) ==
  IF \E i \in 1..Len(rules) : rules[i].id = ruleId
     /\ rules[findIndexById(rules, ruleId)].createdBy = "system"
  THEN rules
  ELSE SelectSeq(rules, LAMBDA r : r.id # ruleId)

----------------------------------------------------------------------------
(* The rule list under learnFromApprovedMatch, updateRuleUsage and the rules *)
(* manager                                                                  *)

LearnTxns ==
  [id: {1}, date: {1}, amount: {10000}, description: {S_UPI_SWIGGY, S_UPI},
   utr: {"u1"}, category: {""}, matched: {FALSE}, matchedReceiptId: {0}]

LearnReceipts ==
  {<<>>} \cup
  {<<r>> : r \in [id: {1}, date: {1}, amount: {10000}, merchant: {S_Swiggy},
                  utr: {"u1"}, category: {"", "Food & Dining"}, matched: {FALSE}]} \cup
  {<<r>> : r \in [id: {1}, date: {1}, amount: {10000}, merchant: {S_KFC},
                  utr: {"u1"}, category: {""}, matched: {FALSE}]}

ApprovedCategories == {"Food & Dining", "Shopping"}

Feedbacks == {<<>>, S_BulkApproved, S_TrainingRecurringHigh}

RuleForms ==
  { [name |-> S_Snacks, category |-> "Food & Dining", patterns |-> S_kfc_food, keywords |-> S_food],
    [name |-> S_Snacks, category |-> "", patterns |-> <<>>, keywords |-> <<>>] }

RuleIds(rules) == {rules[i].id : i \in 1..Len(rules)}

InitRules ==
  /\ bankTransactions = <<>>
  /\ receipts = <<>>
  /\ matches = <<>>
  /\ categoryRules = initializeDefaultRules
  /\ showTrainingDialog = 0
  /\ clock = Len(DEFAULT_RULES)
  /\ pc = "input"
  /\ call = <<>>

LearnCall ==
  /\ clock < Len(DEFAULT_RULES) + MaxRuleOps
  /\ \E t \in LearnTxns, r \in LearnReceipts, c \in ApprovedCategories, f \in Feedbacks :
       \E learnt \in {learnFromApprovedMatch(t, r, c, categoryRules, f, clock + 1)} :
         /\ categoryRules' = learnt.rules
         /\ call' = [transaction |-> t, receipt |-> r, approvedCategory |-> c, trainingFeedback |-> f,
                     ruleIndex |-> learnedRuleIndex(t, r, c, categoryRules, f),
                     existingRules |-> learnt.existing]
  /\ clock' = clock + 1
  /\ pc' = "learnFromApprovedMatch"
  /\ UNCHANGED <<bankTransactions, receipts, matches, showTrainingDialog>>

UpdateRuleUsageCall ==
  /\ clock < Len(DEFAULT_RULES) + MaxRuleOps
  /\ \E id \in RuleIds(categoryRules) :
       /\ categoryRules' = updateRuleUsage(categoryRules, id, clock + 1)
       /\ call' = [ruleId |-> id]
  /\ clock' = clock + 1
  /\ pc' = "updateRuleUsage"
  /\ UNCHANGED <<bankTransactions, receipts, matches, showTrainingDialog>>

AddRuleCall ==
  /\ clock < Len(DEFAULT_RULES) + MaxRuleOps
  /\ \E form \in RuleForms :
       /\ categoryRules' = categoryRules \o addedRule(form, clock + 1)
       /\ call' = [form |-> form]
  /\ clock' = clock + 1
  /\ pc' = "handleAddRule"
  /\ UNCHANGED <<bankTransactions, receipts, matches, showTrainingDialog>>

DeleteRuleCall ==
  /\ clock < Len(DEFAULT_RULES) + MaxRuleOps
  /\ \E id \in RuleIds(categoryRules) :
       /\ categoryRules' = handleDeleteRule(categoryRules, id)
       /\ call' = [ruleId |-> id]
  /\ clock' = clock + 1
  /\ pc' = "handleDeleteRule"
  /\ UNCHANGED <<bankTransactions, receipts, matches, showTrainingDialog>>

NextRules == LearnCall \/ UpdateRuleUsageCall \/ AddRuleCall \/ DeleteRuleCall

SpecRules == InitRules /\ [][NextRules]_vars

SameLearnArguments(c1, c2) ==
  /\ c1.transaction = c2.transaction
  /\ c1.receipt = c2.receipt
  /\ c1.approvedCategory = c2.approvedCategory
  /\ c1.trainingFeedback = c2.trainingFeedback

\* C6: when learnFromApprovedMatch is called a second time with the same
\* transaction, receipt, category and feedback on the list the first call
\* returned, the list keeps its length and the rule the first call created or
\* enhanced has its usageCount increased by exactly 1
C6_RepeatedApprovalKeepsRuleCount ==
  [][(/\ pc = "learnFromApprovedMatch"
      /\ pc' = "learnFromApprovedMatch"
      /\ SameLearnArguments(call, call'))
     => /\ Len(categoryRules') = Len(categoryRules)
        /\ call.ruleIndex # 0 =>
             categoryRules'[call.ruleIndex].usageCount
               = categoryRules[call.ruleIndex].usageCount + 1]_vars

\* the approval corrects the auto-detected category of rule: the category the
\* transaction or receipt carried differs from the approved one, is the
\* rule's category, and the rule shares a keyword or the merchant pattern
CorrectsRule(c, rule) ==
  LET auto == autoDetectedCategoryOf(c.transaction, c.receipt)
  IN /\ auto # ""
     /\ auto # c.approvedCategory
     /\ rule.category = auto
     /\ matchesCurrentTransaction(rule,
          allKeywordsOf(c.transaction, c.receipt, c.trainingFeedback),
          merchantNameOf(c.receipt))

\* C7 as stated: learnFromApprovedMatch returns every system rule with the
\* same confidence, patterns, keywords, usageCount and metadata
C7_SystemRulesUntouched ==
  [][pc' = "learnFromApprovedMatch" =>
       \A i \in 1..Len(categoryRules) :
         categoryRules[i].createdBy = "system" =>
           /\ i <= Len(categoryRules')
           /\ categoryRules'[i] = categoryRules[i]]_vars

\* C7 as amended: learnFromApprovedMatch returns every system rule at its
\* position with the same id, creator, patterns, keywords and usageCount; its
\* confidence and metadata are the same too, unless the approval corrects the
\* auto-detected category of that rule, and then the confidence is lowered by
\* 0.1 but not below 0.3 and correctionCount grows by 1
C7_SystemRulesOnlyPenalized ==
  [][pc' = "learnFromApprovedMatch" =>
       \A i \in 1..Len(categoryRules) :
         categoryRules[i].createdBy = "system" =>
           /\ i <= Len(categoryRules')
           /\ categoryRules'[i].id = categoryRules[i].id
           /\ categoryRules'[i].createdBy = "system"
           /\ categoryRules'[i].patterns = categoryRules[i].patterns
           /\ categoryRules'[i].keywords = categoryRules[i].keywords
           /\ categoryRules'[i].usageCount = categoryRules[i].usageCount
           /\ IF CorrectsRule(call', categoryRules[i])
              THEN /\ categoryRules'[i].confidence = Max(30, categoryRules[i].confidence - 10)
                   /\ categoryRules'[i].metadata.correctionCount
                        = categoryRules[i].metadata.correctionCount + 1
              ELSE /\ categoryRules'[i].confidence = categoryRules[i].confidence
                   /\ categoryRules'[i].metadata = categoryRules[i].metadata]_vars

\* a Swiggy receipt auto-categorized Food & Dining was approved as Shopping:
\* the system rule Food Delivery was penalized, the system rule of the
\* approved category was not touched, and a user rule was learned
C7_Witness ==
  /\ pc = "learnFromApprovedMatch"
  /\ call.approvedCategory = "Shopping"
  /\ autoDetectedCategoryOf(call.transaction, call.receipt) = "Food & Dining"
  /\ categoryRules[1].createdBy = "system"
  /\ categoryRules[1].confidence = 80
  /\ categoryRules[1].metadata.correctionCount = 1
  /\ categoryRules[2] = initializeDefaultRules[2]
  /\ \E i \in 1..Len(categoryRules) : categoryRules[i].createdBy = "user"

\* C11: learnFromApprovedMatch does not mutate its existingRules argument:
\* after the call every rule object of the list passed in has the field
\* values it had before the call
C11_ExistingRulesNotMutated ==
  [][pc' = "learnFromApprovedMatch" => call'.existingRules = categoryRules]_vars

\* C8: whatever learnFromApprovedMatch, updateRuleUsage, add-rule or
\* delete-rule step is taken, every rule that is a system rule before the
\* step is in the list after it and is still a system rule
C8_SystemRulesStay ==
  [][\A i \in 1..Len(categoryRules) :
       categoryRules[i].createdBy = "system" =>
         \E j \in 1..Len(categoryRules') :
           /\ categoryRules'[j].id = categoryRules[i].id
           /\ categoryRules'[j].createdBy = "system"]_vars

\* handleDeleteRule was called for a system rule after a user rule had been
\* learned or added: all default rules are still there
C8_Witness ==
  /\ pc = "handleDeleteRule"
  /\ \E i \in 1..Len(categoryRules) :
       categoryRules[i].id = call.ruleId /\ categoryRules[i].createdBy = "system"
  /\ \E i \in 1..Len(categoryRules) : categoryRules[i].createdBy = "user"
  /\ \A k \in 1..Len(DEFAULT_RULES) : categoryRules[k].id = k

----------------------------------------------------------------------------
(* lib/matching: applyMatches *)

IsApproved(m) == m.status = "approved"

\* index of the entry ms.find(m => m.bankTransaction.id === id) returns, 0
\* when it returns undefined
findMatchIndex(ms, id) ==
  IF \E i \in 1..Len(ms) : ms[i].bankTransaction.id = id
  THEN CHOOSE i \in 1..Len(ms) :
         /\ ms[i].bankTransaction.id = id
         /\ \A j \in 1..(i - 1) : ms[j].bankTransaction.id # id
  ELSE 0

\* m.suggestedReceipt?.id === id
SuggestsReceipt(m, id) == m.suggestedReceipt # NoReceipt /\ m.suggestedReceipt[1].id = id

\* index of the entry ms.find(m => m.suggestedReceipt?.id === id) returns, 0
\* when it returns undefined
findMatchIndexByReceipt(ms, id) ==
  IF \E i \in 1..Len(ms) : SuggestsReceipt(ms[i], id)
  THEN CHOOSE i \in 1..Len(ms) :
         /\ SuggestsReceipt(ms[i], id)
         /\ \A j \in 1..(i - 1) : ~SuggestsReceipt(ms[j], id)
  ELSE 0

applyMatches(ms, txns, rs) ==
  LET approvedMatches == SelectSeq(ms, IsApproved)
      updatedTxn(txn) ==
        LET k == findMatchIndex(approvedMatches, txn.id)
        IN IF k # 0 /\ approvedMatches[k].suggestedReceipt # NoReceipt
           THEN [txn EXCEPT
                   !.matched = TRUE,
                   !.matchedReceiptId = approvedMatches[k].suggestedReceipt[1].id,
                   !.category = IF txn.category # "" THEN txn.category
                                ELSE approvedMatches[k].suggestedReceipt[1].category]
           ELSE txn
      updatedReceipt(receipt) ==
        LET k == findMatchIndexByReceipt(approvedMatches, receipt.id)
        IN IF k # 0 THEN [receipt EXCEPT !.matched = TRUE] ELSE receipt
  IN [updatedBankTransactions |-> [i \in 1..Len(txns) |-> updatedTxn(txns[i])],
      updatedReceipts         |-> [i \in 1..Len(rs) |-> updatedReceipt(rs[i])]]

----------------------------------------------------------------------------
(* App *)

\* useMemo: the matches generated from the stored transactions and receipts
generatedMatches ==
  IF Len(bankTransactions) = 0 \/ Len(receipts) = 0 THEN <<>>
  ELSE generateMatches(bankTransactions, receipts)

\* the condition of the effect that replaces the match list; the effect runs
\* after every render in which generatedMatches or matches changed, before
\* the next user event
EffectPending == \E g \in {generatedMatches} : Len(g) > 0 /\ g # matches

\* the updater handleMatchUpdate passes to setMatches
updatedMatchStatus(currentMatches, matchId, status, category) ==
  [i \in 1..Len(currentMatches) |->
     IF currentMatches[i].bankTransaction.id = matchId
     THEN [currentMatches[i] EXCEPT
             !.status = status,
             !.bankTransaction = IF category # ""
                                 THEN [currentMatches[i].bankTransaction EXCEPT !.category = category]
                                 ELSE currentMatches[i].bankTransaction]
     ELSE currentMatches[i]]

\* matches.map(m => m.bankTransaction.id === matchId ? { ...m, status } : m)
withStatus(ms, matchId, status) ==
  [i \in 1..Len(ms) |->
     IF ms[i].bankTransaction.id = matchId THEN [ms[i] EXCEPT !.status = status] ELSE ms[i]]

\* One call of handleMatchUpdate.  closure holds the matches, rules,
\* transactions and receipts of the render the handler was created in; next
\* holds the values the state setters have queued so far in this event.
\* setMatches gets an updater and applies it to the queued value, the three
\* other setters get values computed from the closure.  The rule objects of
\* closure.categoryRules are the ones learnFromApprovedMatch assigns to.
\* mutant of handleMatchUpdate: the transactions and receipts are updated
\* for a rejection as they are for an approval
handleMatchUpdate_AnyStatus(closure, next, matchId, status, category, feedback, now) ==
  LET k      == findMatchIndex(closure.matches, matchId)
      learns == status = "approved" /\ k # 0 /\ category # ""
      learnt == learnFromApprovedMatch(closure.matches[k].bankTransaction,
                  closure.matches[k].suggestedReceipt, category,
                  closure.categoryRules, feedback, now)
      applied == applyMatches(withStatus(closure.matches, matchId, "approved"),
                   closure.bankTransactions, closure.receipts)
  IN [closure |-> IF learns THEN [closure EXCEPT !.categoryRules = learnt.existing] ELSE closure,
      next |->
        [matches          |-> updatedMatchStatus(next.matches, matchId, status, category),
         categoryRules    |-> IF learns THEN learnt.rules ELSE next.categoryRules,
         bankTransactions |-> applied.updatedBankTransactions,
         receipts         |-> applied.updatedReceipts]]

handleMatchUpdate(closure, next, matchId, status, category, feedback, now) ==
  LET k      == findMatchIndex(closure.matches, matchId)
      learns == status = "approved" /\ k # 0 /\ category # ""
      learnt == learnFromApprovedMatch(closure.matches[k].bankTransaction,
                  closure.matches[k].suggestedReceipt, category,
                  closure.categoryRules, feedback, now)
      applied == applyMatches(withStatus(closure.matches, matchId, status),
                   closure.bankTransactions, closure.receipts)
  IN [closure |-> IF learns THEN [closure EXCEPT !.categoryRules = learnt.existing] ELSE closure,
      next |->
        [matches          |-> updatedMatchStatus(next.matches, matchId, status, category),
         categoryRules    |-> IF learns THEN learnt.rules ELSE next.categoryRules,
         bankTransactions |-> IF status = "approved" THEN applied.updatedBankTransactions
                              ELSE next.bankTransactions,
         receipts         |-> IF status = "approved" THEN applied.updatedReceipts
                              ELSE next.receipts]]

Stored ==
  [matches |-> matches, categoryRules |-> categoryRules,
   bankTransactions |-> bankTransactions, receipts |-> receipts]

----------------------------------------------------------------------------
(* TransactionMatching *)

guessCategory(merchantOrDescription) ==
  LET text == toLowerCase(merchantOrDescription)
      has(w) == includes(text, w)
  IN IF has(S_swiggy) \/ has(S_zomato) \/ has(S_food) \/ has(S_restaurant)
     THEN "Food & Dining"
     ELSE IF has(S_uber) \/ has(S_ola) \/ has(S_metro) \/ has(S_petrol) \/ has(S_fuel)
     THEN "Travel & Transport"
     ELSE IF has(S_amazon) \/ has(S_flipkart) \/ has(S_shop) \/ has(S_mall)
     THEN "Shopping"
     ELSE IF has(S_netflix) \/ has(S_spotify) \/ has(S_entertainment) \/ has(S_movie)
     THEN "Entertainment"
     ELSE IF has(S_electric) \/ has(S_gas) \/ has(S_water) \/ has(S_bill) \/ has(S_utility)
     THEN "Utilities & Bills"
     ELSE IF has(S_hospital) \/ has(S_medical) \/ has(S_pharmacy) \/ has(S_doctor)
     THEN "Healthcare"
     ELSE IF has(S_school) \/ has(S_education) \/ has(S_course) \/ has(S_fee)
     THEN "Education"
     ELSE "Miscellaneous"

\* selectedCategory[matchId] || match.suggestedReceipt?.category || 'Miscellaneous'
approvalCategory(match, selected) ==
  IF selected # "" THEN selected
  ELSE IF match.suggestedReceipt # NoReceipt /\ match.suggestedReceipt[1].category # ""
  THEN match.suggestedReceipt[1].category
  ELSE "Miscellaneous"

\* the category handleBulkApprove passes for one match
bulkCategory(match, selected) ==
  IF selected # "" THEN selected
  ELSE IF match.suggestedReceipt[1].category # "" THEN match.suggestedReceipt[1].category
  ELSE guessCategory(IF match.suggestedReceipt[1].merchant # <<>>
                     THEN match.suggestedReceipt[1].merchant
                     ELSE match.bankTransaction.description)

IsPending(m) == m.status = "pending"

\* pendingMatches.filter(m => m.matchScore >= 80 && m.suggestedReceipt)
IsHighConfidence(m) == m.status = "pending" /\ m.matchScore >= 80 /\ m.suggestedReceipt # NoReceipt

highConfidenceMatches == SelectSeq(matches, IsHighConfidence)

RECURSIVE bulkApproveFrom(_, _, _, _, _)
\* the forEach of handleBulkApprove from index i on: every call of
\* onMatchUpdate sees the closure of the same render, and the calls of one
\* click read the same millisecond from the clock
bulkApproveFrom(batch, selected, i, state, now) ==
  IF i > Len(batch) THEN state
  ELSE bulkApproveFrom(batch, selected, i + 1,
         handleMatchUpdate(state.closure, state.next, batch[i].bankTransaction.id, "approved",
           bulkCategory(batch[i], selected[i]), S_BulkApproved, now),
         now)

----------------------------------------------------------------------------
(* lib/demoData: the first two rows of each list *)

demoBankTransactions ==
  << [id |-> 1, date |-> 15, amount |-> 125000, description |-> S_DemoDesc1,
      utr |-> "432109876543", category |-> "", matched |-> FALSE, matchedReceiptId |-> 0],
     [id |-> 2, date |-> 15, amount |-> 85050, description |-> S_DemoDesc2,
      utr |-> "987654321098", category |-> "", matched |-> FALSE, matchedReceiptId |-> 0] >>

demoReceipts ==
  << [id |-> 1, date |-> 15, amount |-> 125000, merchant |-> S_Swiggy,
      utr |-> "432109876543", category |-> "Food & Dining", matched |-> FALSE],
     [id |-> 2, date |-> 15, amount |-> 85050, merchant |-> S_ZomatoOnline,
      utr |-> "987654321098", category |-> "Food & Dining", matched |-> FALSE] >>

----------------------------------------------------------------------------
(* The application: state of App, handlers of App and TransactionMatching *)

\* number of user events; a millisecond or more passes between two of them
MaxEvents == 5

ClockLeft == clock < Len(DEFAULT_RULES) + MaxEvents

\* the training dialog is modal: while it is open only its own buttons work
DialogIsClosed == showTrainingDialog = 0

\* parsed statements a user uploads (rows without ids)
StatementRow(description, utr) ==
  [id |-> 0, date |-> 1, amount |-> 10000, description |-> description,
   utr |-> utr, category |-> "", matched |-> FALSE, matchedReceiptId |-> 0]

Statements ==
  { <<StatementRow(S_UPI_SWIGGY, "u1")>>,
    <<StatementRow(S_UPI_SWIGGY, "u1"), StatementRow(S_UPI, "u2")>> }

\* receipts the OCR step produces (without id; the OCR step sets no category)
ScannedReceipts ==
  [id: {0}, date: {1}, amount: {10000}, merchant: {S_Swiggy},
   utr: {"u1"}, category: {""}, matched: {FALSE}]

\* the categories a reviewer picks in the selector ("" is no selection)
SelectedCategories == {"", "Shopping"}

\* the feedback handleApproveWithTraining builds: '' without training
\* options, the bracketed training details with them
TrainingFeedbacks == {<<>>, S_TrainingRecurringHigh}

Init ==
  /\ bankTransactions = <<>>
  /\ receipts = <<>>
  /\ matches = <<>>
  /\ categoryRules = initializeDefaultRules
  /\ showTrainingDialog = 0
  /\ clock = Len(DEFAULT_RULES)
  /\ pc = "rendered"
  /\ call = <<>>

\* the effect of App that stores the generated matches
UpdateMatchesEffect ==
  /\ EffectPending
  /\ matches' = generatedMatches
  /\ pc' = "rendered"
  /\ call' = <<>>
  /\ UNCHANGED <<bankTransactions, receipts, categoryRules, showTrainingDialog, clock>>

HandleBankTransactionsUploaded ==
  /\ ClockLeft
  /\ ~EffectPending
  /\ DialogIsClosed
  /\ \E rows \in Statements :
       bankTransactions' = [i \in 1..Len(rows) |-> [rows[i] EXCEPT !.id = 10 * (clock + 1) + i]]
  /\ clock' = clock + 1
  /\ pc' = "rendered"
  /\ call' = <<>>
  /\ UNCHANGED <<receipts, matches, categoryRules, showTrainingDialog>>

HandleLoadDemoData ==
  /\ ClockLeft
  /\ ~EffectPending
  /\ DialogIsClosed
  /\ bankTransactions' = demoBankTransactions
  /\ receipts' = demoReceipts
  /\ clock' = clock + 1
  /\ pc' = "rendered"
  /\ call' = <<>>
  /\ UNCHANGED <<matches, categoryRules, showTrainingDialog>>

\* ReceiptUpload with one file: onReceiptsUpdate([...receipts, receipt])
ReceiptUploaded ==
  /\ ClockLeft
  /\ ~EffectPending
  /\ DialogIsClosed
  /\ \E r \in ScannedReceipts :
       receipts' = Append(receipts, [r EXCEPT !.id = clock + 1])
  /\ clock' = clock + 1
  /\ pc' = "rendered"
  /\ call' = <<>>
  /\ UNCHANGED <<bankTransactions, matches, categoryRules, showTrainingDialog>>

\* ReceiptUpload: removeReceipt(receiptId)
ReceiptRemoved ==
  /\ ClockLeft
  /\ ~EffectPending
  /\ DialogIsClosed
  /\ \E i \in 1..Len(receipts) :
       receipts' = SelectSeq(receipts, LAMBDA r : r.id # receipts[i].id)
  /\ clock' = clock + 1
  /\ pc' = "rendered"
  /\ call' = <<>>
  /\ UNCHANGED <<bankTransactions, matches, categoryRules, showTrainingDialog>>

\* the state after one call of handleMatchUpdate from the current render
MatchUpdated(matchId, status, category, feedback) ==
  \E r \in {handleMatchUpdate(Stored, Stored, matchId, status, category, feedback, clock + 1).next} :
     /\ matches' = r.matches
     /\ categoryRules' = r.categoryRules
     /\ bankTransactions' = r.bankTransactions
     /\ receipts' = r.receipts
     /\ call' = [matchId |-> matchId, status |-> status, category |-> category]
     /\ pc' = "handleMatchUpdate"

\* the Approve button of a pending match: handleApprove(matchId)
HandleApprove ==
  /\ ClockLeft
  /\ ~EffectPending
  /\ DialogIsClosed
  /\ \E i \in 1..Len(matches), selected \in SelectedCategories :
       /\ IsPending(matches[i])
       /\ MatchUpdated(matches[i].bankTransaction.id, "approved",
                       approvalCategory(matches[i], selected), <<>>)
  /\ clock' = clock + 1
  /\ UNCHANGED showTrainingDialog

\* the Reject button of a pending match
HandleReject ==
  /\ ClockLeft
  /\ ~EffectPending
  /\ DialogIsClosed
  /\ \E i \in 1..Len(matches) :
       /\ IsPending(matches[i])
       /\ MatchUpdated(matches[i].bankTransaction.id, "rejected", "", <<>>)
  /\ clock' = clock + 1
  /\ UNCHANGED showTrainingDialog

\* the "Approve & Train" button of a pending match: handleApprove(matchId, true)
OpenTrainingDialog ==
  /\ ClockLeft
  /\ ~EffectPending
  /\ DialogIsClosed
  /\ \E i \in 1..Len(matches) :
       /\ IsPending(matches[i])
       /\ showTrainingDialog' = matches[i].bankTransaction.id
  /\ clock' = clock + 1
  /\ pc' = "rendered"
  /\ call' = <<>>
  /\ UNCHANGED <<bankTransactions, receipts, matches, categoryRules>>

\* the dialog shows its buttons when the match it was opened for is in the list
DialogMatch == findMatchIndex(matches, showTrainingDialog)

\* "Simple Approve" in the dialog: handleApprove(showTrainingDialog); the
\* dialog stays open
DialogSimpleApprove ==
  /\ ClockLeft
  /\ ~EffectPending
  /\ showTrainingDialog # 0
  /\ DialogMatch # 0
  /\ \E selected \in SelectedCategories :
       MatchUpdated(showTrainingDialog, "approved",
                    approvalCategory(matches[DialogMatch], selected), <<>>)
  /\ clock' = clock + 1
  /\ UNCHANGED showTrainingDialog

\* "Approve with Training" in the dialog: handleApproveWithTraining
DialogApproveWithTraining ==
  /\ ClockLeft
  /\ ~EffectPending
  /\ showTrainingDialog # 0
  /\ DialogMatch # 0
  /\ \E selected \in SelectedCategories, feedback \in TrainingFeedbacks :
       MatchUpdated(showTrainingDialog, "approved",
                    approvalCategory(matches[DialogMatch], selected), feedback)
  /\ clock' = clock + 1
  /\ showTrainingDialog' = 0

\* closing the dialog: onOpenChange
DialogClosed ==
  /\ ClockLeft
  /\ ~EffectPending
  /\ showTrainingDialog # 0
  /\ showTrainingDialog' = 0
  /\ clock' = clock + 1
  /\ pc' = "rendered"
  /\ call' = <<>>
  /\ UNCHANGED <<bankTransactions, receipts, matches, categoryRules>>

\* the bulk approve button
HandleBulkApprove ==
  /\ ClockLeft
  /\ ~EffectPending
  /\ DialogIsClosed
  /\ Len(highConfidenceMatches) > 0
  /\ \E batch \in {highConfidenceMatches} :
     \E r \in {bulkApproveFrom(batch, [i \in 1..Len(batch) |-> ""], 1,
                 [closure |-> Stored, next |-> Stored], clock + 1).next} :
        /\ matches' = r.matches
        /\ categoryRules' = r.categoryRules
        /\ bankTransactions' = r.bankTransactions
        /\ receipts' = r.receipts
        /\ clock' = clock + 1
        /\ call' = [batch |-> [i \in 1..Len(batch) |-> batch[i].bankTransaction.id]]
  /\ pc' = "handleBulkApprove"
  /\ UNCHANGED showTrainingDialog

Next ==
  \/ UpdateMatchesEffect
  \/ HandleBankTransactionsUploaded
  \/ HandleLoadDemoData
  \/ ReceiptUploaded
  \/ ReceiptRemoved
  \/ HandleApprove
  \/ HandleReject
  \/ OpenTrainingDialog
  \/ DialogSimpleApprove
  \/ DialogApproveWithTraining
  \/ DialogClosed
  \/ HandleBulkApprove

Spec == Init /\ [][Next]_vars

----------------------------------------------------------------------------
(* Properties of the application *)

\* a step in which handleMatchUpdate ran once for an approval or a rejection
IsMatchUpdateStep == pc' = "handleMatchUpdate"

\* the entry of the match list, before the step, the call is about
updatedMatch == matches[findMatchIndex(matches, call'.matchId)]

\* the stored objects with a given id after the step
storedTxnAfter(id) == bankTransactions'[findIndexById(bankTransactions', id)]
storedReceiptAfter(id) == receipts'[findIndexById(receipts', id)]

\* handleMatchUpdate(id, 'approved', C) on a pending match with a suggested receipt
ApprovesPendingWithReceipt ==
  /\ IsMatchUpdateStep
  /\ call'.status = "approved"
  /\ updatedMatch.status = "pending"
  /\ updatedMatch.suggestedReceipt # NoReceipt

\* C2: after handleMatchUpdate(id, 'approved', C) on a pending match whose
\* suggested receipt is r, the stored transaction id has matched = true,
\* matchedReceiptId = r.id and category = C, and the stored receipt r has
\* matched = true.
C2_ApprovalStoresCategory ==
  [][ApprovesPendingWithReceipt =>
       /\ storedTxnAfter(call'.matchId).matched
       /\ storedTxnAfter(call'.matchId).matchedReceiptId = updatedMatch.suggestedReceipt[1].id
       /\ storedTxnAfter(call'.matchId).category = call'.category
       /\ storedReceiptAfter(updatedMatch.suggestedReceipt[1].id).matched]_vars

\* C3: once the match of a transaction is approved or rejected, no later step
\* (the effect that stores the generated matches included) leaves a pending
\* entry for that transaction in the match list.
C3_DecidedNeverPendingAgain ==
  [][\A i \in 1..Len(matches) :
       matches[i].status \in {"approved", "rejected"} =>
         \A j \in 1..Len(matches') :
           matches'[j].bankTransaction.id = matches[i].bankTransaction.id =>
             matches'[j].status # "pending"]_vars

\* C4: handleMatchUpdate for a match that is already approved or rejected
\* changes neither the match list nor the transactions, receipts or rules.
C4_DecidedMatchUpdateChangesNothing ==
  [][(IsMatchUpdateStep /\ updatedMatch.status \in {"approved", "rejected"}) =>
       UNCHANGED <<matches, bankTransactions, receipts, categoryRules>>]_vars

RECURSIVE totalUsage(_)
\* the sum of usageCount over a rule list: every learning step that creates
\* or enhances a rule adds one to it
totalUsage(rules) ==
  IF rules = <<>> THEN 0 ELSE Head(rules).usageCount + totalUsage(Tail(rules))

\* C5: after handleBulkApprove the stored rule list reflects the learning
\* step of every approval of the batch: each approval created a rule with
\* usageCount 1 or added one to the usageCount of the rule it enhanced.
C5_BulkApproveKeepsEveryLearningStep ==
  [][pc' = "handleBulkApprove" =>
       totalUsage(categoryRules') = totalUsage(categoryRules) + Len(call'.batch)]_vars

----------------------------------------------------------------------------
(* lib/categorization: matchesRule and categorizeTransaction *)

\* Match confidences are exact fractions of rule confidences: they are kept
\* in units of 1/ConfUnit of a hundredth, which holds 0.7 * c and
\* (hits / n) * c exactly for every keyword count n that divides ConfUnit
ConfUnit == 60

NoMatch == [matches |-> FALSE, confidence |-> 0]

\* rule.patterns.some(pattern => normalizedText.includes(pattern.toLowerCase()))
patternMatches(normalizedText, rule) ==
  \E p \in 1..Len(rule.patterns) : includes(normalizedText, toLowerCase(rule.patterns[p]))

\* rule.keywords.filter(keyword => normalizedText.includes(keyword.toLowerCase())).length
keywordMatches(normalizedText, rule) ==
  Cardinality({k \in 1..Len(rule.keywords) : includes(normalizedText, toLowerCase(rule.keywords[k]))})

\* Math.min(rule.confidence * 0.7, (keywordMatches / rule.keywords.length) * rule.confidence)
\* mutant of keywordConfidence: the share of keywords hit, without the cap
\* at 0.7 times the rule's confidence
keywordConfidence_NoCap(hits, rule) ==
  (hits * rule.confidence * ConfUnit) \div Len(rule.keywords)

keywordConfidence(hits, rule) ==
  Min((7 * rule.confidence * ConfUnit) \div 10,
      (hits * rule.confidence * ConfUnit) \div Len(rule.keywords))

matchesRule(text, rule) ==
  IF text = <<>> THEN NoMatch
  ELSE IF patternMatches(toLowerCase(trim(text)), rule)
  THEN [matches |-> TRUE, confidence |-> rule.confidence * ConfUnit]
  ELSE IF keywordMatches(toLowerCase(trim(text)), rule) > 0
  THEN [matches |-> TRUE,
        confidence |-> keywordConfidence(keywordMatches(toLowerCase(trim(text)), rule), rule)]
  ELSE NoMatch

\* 'merchant' in transaction ? `${transaction.merchant}`.trim() : transaction.description || ''
textToAnalyze(transaction) ==
  IF "merchant" \in DOMAIN transaction THEN trim(transaction.merchant)
  ELSE transaction.description

\* mutant of improvesCategoryMatch: a later rule of equal confidence replaces the earlier one
improvesCategoryMatch_LaterWinsTies(match, bestMatch) ==
  match.matches /\ (bestMatch = <<>> \/ match.confidence >= bestMatch[1].confidence)

\* match.matches && (!bestMatch || match.confidence > bestMatch.confidence)
improvesCategoryMatch(match, bestMatch) ==
  match.matches /\ (bestMatch = <<>> \/ match.confidence > bestMatch[1].confidence)

RECURSIVE categorizeFrom(_, _, _, _)
\* the loop over the rules from index i on; bestMatch is a sequence of
\* length 0 (null) or 1
categorizeFrom(text, rules, i, bestMatch) ==
  IF i > Len(rules) THEN bestMatch
  ELSE categorizeFrom(text, rules, i + 1,
         IF improvesCategoryMatch(matchesRule(text, rules[i]), bestMatch)
         THEN <<[category |-> rules[i].category,
                 confidence |-> matchesRule(text, rules[i]).confidence,
                 rule |-> i]>>
         ELSE bestMatch)

\* mutant of acceptsCategoryMatch: any matching rule is accepted
acceptsCategoryMatch_NoThreshold(bestMatch) == bestMatch # <<>>

\* bestMatch && bestMatch.confidence >= 0.5
acceptsCategoryMatch(bestMatch) == bestMatch # <<>> /\ bestMatch[1].confidence >= 50 * ConfUnit

NoCategory == [category |-> "", confidence |-> 0, matchedRule |-> 0]

\* category "" is null; matchedRule is the index of the rule in rules, 0 when
\* the result has none
categorizeTransaction(transaction, rules) ==
  IF Len(rules) = 0 THEN NoCategory
  ELSE LET bestMatch == categorizeFrom(textToAnalyze(transaction), rules, 1, <<>>)
       IN IF acceptsCategoryMatch(bestMatch)
          THEN [category |-> bestMatch[1].category,
                confidence |-> bestMatch[1].confidence,
                matchedRule |-> bestMatch[1].rule]
          ELSE NoCategory

----------------------------------------------------------------------------
(* categorizeTransaction as a function of its arguments *)

MaxCatRules == 2

S_food_order == <<"f","o","o","d"," ","o","r","d","e","r">>
S_Food_Delivery_padded == <<" ","F","o","o","d"," ","D","e","l","i","v","e","r","y"," ">>
S_Amazon_Swiggy == <<"A","m","a","z","o","n"," ","S","w","i","g","g","y">>

CatTexts == {S_Swiggy, S_food_order, S_Food_Delivery_padded, S_Amazon_Swiggy, S_UPI, <<>>}

\* a receipt carries the text as merchant, a bank transaction as description
CatTransactions ==
  [merchant: CatTexts] \cup [description: CatTexts]

CatRulePool ==
  [category: {"Food & Dining"}, patterns: {<<S_Swiggy>>},
   keywords: {<<S_food, S_delivery>>, <<S_food, S_delivery, S_order>>},
   confidence: {40, 60, 90}] \cup
  [category: {"Shopping"}, patterns: {<<S_amazon>>},
   keywords: {<<S_food, S_delivery>>, <<S_food, S_delivery, S_order>>},
   confidence: {40, 60, 90}]

\* the rules learnFromApprovedMatch creates, at the default confidence 0.7,
\* from an approval of a Swiggy receipt and from an approval of a
\* transaction "food order" without receipt
LearnedCatRules ==
  {learnFromApprovedMatch(
     [id |-> 1, date |-> 1, amount |-> 10000, description |-> d, utr |-> "u1",
      category |-> "", matched |-> FALSE, matchedReceiptId |-> 0],
     r, "Shopping", <<>>, <<>>, 1).rules[1] :
       <<d, r>> \in {<<S_UPI, <<[id |-> 1, date |-> 1, amount |-> 10000, merchant |-> S_Swiggy,
                                  utr |-> "u1", category |-> "", matched |-> FALSE]>> >>,
                      <<S_food_order, <<>> >>}}

CatRuleInputs == UNION {[1..n -> CatRulePool \cup LearnedCatRules] : n \in 0..MaxCatRules}

InitCategorize ==
  /\ bankTransactions = <<>>
  /\ receipts = <<>>
  /\ matches = <<>>
  /\ categoryRules \in CatRuleInputs
  /\ showTrainingDialog = 0
  /\ clock = 0
  /\ pc = "input"
  /\ call \in [transaction: CatTransactions]

CategorizeCall ==
  /\ pc = "input"
  /\ call' = [transaction |-> call.transaction,
              result |-> categorizeTransaction(call.transaction, categoryRules)]
  /\ pc' = "categorizeTransaction"
  /\ UNCHANGED <<bankTransactions, receipts, matches, categoryRules, showTrainingDialog, clock>>

NextCategorize == CategorizeCall

SpecCategorize == InitCategorize /\ [][NextCategorize]_vars

\* the text of the categorized transaction as matchesRule normalizes it
CatNormalizedText ==
  toLowerCase(trim(IF "merchant" \in DOMAIN call.transaction
                   THEN call.transaction.merchant ELSE call.transaction.description))

\* rule i is hit by a pattern
CatPatternHit(i) ==
  \E p \in 1..Len(categoryRules[i].patterns) :
    includes(CatNormalizedText, toLowerCase(categoryRules[i].patterns[p]))

\* the keywords of rule i that the text contains
CatKeywordHits(i) ==
  {k \in 1..Len(categoryRules[i].keywords) :
     includes(CatNormalizedText, toLowerCase(categoryRules[i].keywords[k]))}

\* the rules the text hits, and the confidence of each hit
CatHits == {i \in 1..Len(categoryRules) : matchesRule(textToAnalyze(call.transaction), categoryRules[i]).matches}

CatConfidence(i) == matchesRule(textToAnalyze(call.transaction), categoryRules[i]).confidence

CatHighest == CHOOSE c \in {CatConfidence(i) : i \in CatHits} : \A j \in CatHits : CatConfidence(j) <= c

\* C12: categorizeTransaction returns a category exactly when the highest
\* match confidence over all rules is at least 0.5, and then with that
\* confidence; a text that hits no pattern and no keyword of any rule yields
\* no category; a pattern hit yields for its rule exactly the rule's confidence
C12_CategoryIffHighestAtLeastHalf ==
  pc = "categorizeTransaction" =>
    /\ (call.result.category # "") <=> (CatHits # {} /\ CatHighest >= 50 * ConfUnit)
    /\ call.result.category # "" => call.result.confidence = CatHighest
    /\ call.result.category = "" => call.result = NoCategory
    /\ (\A i \in 1..Len(categoryRules) : ~CatPatternHit(i) /\ CatKeywordHits(i) = {})
         => call.result.category = ""
    /\ \A i \in 1..Len(categoryRules) :
         (CatNormalizedText # <<>> /\ CatPatternHit(i))
           => /\ i \in CatHits
              /\ CatConfidence(i) = categoryRules[i].confidence * ConfUnit

\* a pattern hit on a rule of confidence 0.6 returned the rule's category
\* with confidence 0.6, next to a rule of confidence 0.4 that was hit too
C12_Witness ==
  /\ pc = "categorizeTransaction"
  /\ call.result.category # ""
  /\ call.result.confidence = 60 * ConfUnit
  /\ CatPatternHit(call.result.matchedRule)
  /\ categoryRules[call.result.matchedRule].confidence = 60
  /\ \E i \in CatHits : categoryRules[i].confidence = 40 /\ CatPatternHit(i)

\* C13: a rule hit by h >= 1 of its n keywords and by no pattern matches with
\* confidence min(0.7 c, (h / n) c), strictly below c when c > 0; the result
\* of categorizeTransaction is the hit of highest confidence, the earliest
\* rule among those of equal confidence
C13_KeywordConfidenceAndEarliestBest ==
  pc = "categorizeTransaction" =>
    /\ \A i \in 1..Len(categoryRules) :
         (CatNormalizedText # <<>> /\ ~CatPatternHit(i) /\ CatKeywordHits(i) # {})
           => LET c == categoryRules[i].confidence
                  h == Cardinality(CatKeywordHits(i))
                  n == Len(categoryRules[i].keywords)
              IN /\ i \in CatHits
                 /\ 10 * n * CatConfidence(i) = Min(7 * c * n, 10 * h * c) * ConfUnit
                 /\ c > 0 => CatConfidence(i) < c * ConfUnit
    /\ call.result.category # ""
         => /\ call.result.matchedRule \in CatHits
            /\ CatConfidence(call.result.matchedRule) = CatHighest
            /\ \A j \in CatHits :
                 CatConfidence(j) = CatHighest => call.result.matchedRule <= j
            /\ call.result.category = categoryRules[call.result.matchedRule].category

\* two rules of different categories were hit by keywords only, with the same
\* confidence, and the result is the first of them
C13_Witness ==
  /\ pc = "categorizeTransaction"
  /\ Len(categoryRules) >= 2
  /\ categoryRules[1].category # categoryRules[2].category
  /\ ~CatPatternHit(1) /\ ~CatPatternHit(2)
  /\ CatKeywordHits(1) # {} /\ CatKeywordHits(2) # {}
  /\ CatConfidence(1) = CatConfidence(2)
  /\ call.result.matchedRule = 1
  /\ call.result.category = categoryRules[1].category

\* C29: a rule whose confidence is at most 0.7 and that is hit by keywords
\* only, however many, has a match confidence of at most 0.7 * 0.7 = 0.49 and
\* is never the rule categorizeTransaction returns; so a rule learnt at the
\* default confidence 0.7 gives a category only through a pattern hit
C29_KeywordsAloneNeverCategorizeAtMedium ==
  pc = "categorizeTransaction" =>
    \A i \in 1..Len(categoryRules) :
      (categoryRules[i].confidence <= 70 /\ ~CatPatternHit(i)) =>
        /\ i \in CatHits => CatConfidence(i) <= 49 * ConfUnit
        /\ call.result.category # "" => call.result.matchedRule # i

\* a rule learnt at 0.7 without merchant pattern had every one of its
\* keywords hit by the text, and no category was returned
C29_Witness ==
  /\ pc = "categorizeTransaction"
  /\ Len(categoryRules) = 1
  /\ categoryRules[1] \in LearnedCatRules
  /\ categoryRules[1].confidence = 70
  /\ categoryRules[1].patterns = <<>>
  /\ Len(categoryRules[1].keywords) >= 2
  /\ CatKeywordHits(1) = 1..Len(categoryRules[1].keywords)
  /\ CatConfidence(1) = 49 * ConfUnit
  /\ call.result = NoCategory

----------------------------------------------------------------------------
(* learnFromApprovedMatch as a function of its arguments, over training
   feedbacks built from the directives it looks for *)

S_ConfidenceLevelHigh == <<"C","o","n","f","i","d","e","n","c","e"," ","l","e","v","e","l",":"," ","h","i","g","h">>

RECURSIVE join(_)
\* insights.join(', ')
join(parts) ==
  IF Len(parts) = 0 THEN <<>>
  ELSE IF Len(parts) = 1 THEN parts[1]
  ELSE parts[1] \o <<",", " ">> \o join(Tail(parts))

FeedbackMarkers == {S_TRAINING_MARK, S_BULK_TRAINING_MARK}
RecurringDirectives == {<<>>, <<S_ThisIsRecurring>>}
ApplyDirectives == {<<>>, <<S_ApplyToSimilar>>}
LevelDirectives == {<<>>, <<S_ConfidenceHigh>>, <<S_ConfidenceLow>>, <<S_ConfidenceLevelHigh>>}

DirectiveFeedbacks ==
  {<<>>} \cup
  {m \o <<" ">> \o join(r \o a \o l) \o <<"]">> :
     m \in FeedbackMarkers, r \in RecurringDirectives, a \in ApplyDirectives, l \in LevelDirectives}

\* the transactions of LearnTxns, and the same transactions carrying a
\* category, as the transaction of a match approved before does
LearnOnceTxns ==
  LearnTxns \cup {[t EXCEPT !.category = c] : t \in LearnTxns, c \in ApprovedCategories}

\* the default rules after six corrections of the first one, whose
\* confidence has come down from 0.9 to 0.3
CorrectedDefaultRules ==
  [initializeDefaultRules EXCEPT
     ![1] = [@ EXCEPT !.confidence = 30,
                      !.metadata = [@ EXCEPT !.lastCorrected = Len(DEFAULT_RULES) + 1,
                                             !.correctionCount = 6]]]

S_SixteenKeywords == <<"f","o","o","d",",","d","e","l","i","v","e","r","y",",","o","r","d","e","r",",","m","e","a","l",",","l","u","n","c","h",",","d","i","n","n","e","r",",","s","n","a","c","k",",","p","i","z","z","a",",","b","u","r","g","e","r",",","c","a","f","e",",","t","e","a",",","c","o","f","f","e","e",",","b","i","r","y","a","n","i",",","d","o","s","a",",","t","h","a","l","i",",","s","w","e","e","t","s">>
S_ElevenPatterns == <<"s","w","i","g","g","y",",","z","o","m","a","t","o",",","d","o","m","i","n","o","s",",","k","f","c",",","m","c","d","o","n","a","l","d","s",",","s","u","b","w","a","y",",","d","u","n","z","o",",","b","l","i","n","k","i","t",",","z","e","p","t","o",",","e","a","t","f","i","t",",","f","a","a","s","o","s">>

\* the default rules followed by a Food & Dining rule added in the rules
\* manager with sixteen keywords and eleven patterns
ManagedRules ==
  initializeDefaultRules
  \o addedRule([name |-> S_Snacks, category |-> "Food & Dining",
                patterns |-> S_ElevenPatterns, keywords |-> S_SixteenKeywords],
               Len(DEFAULT_RULES) + 1)

\* the default rules, the default rules after corrections, the default rules
\* with a rule added in the rules manager, and the default rules followed by a
\* rule learnt from an approval of a Swiggy receipt as Shopping
LearnRuleLists ==
  {initializeDefaultRules,
   CorrectedDefaultRules,
   ManagedRules,
   learnFromApprovedMatch([id |-> 1, date |-> 1, amount |-> 10000, description |-> S_UPI,
                           utr |-> "u1", category |-> "", matched |-> FALSE, matchedReceiptId |-> 0],
                          <<[id |-> 1, date |-> 1, amount |-> 10000, merchant |-> S_Swiggy,
                             utr |-> "u1", category |-> "", matched |-> FALSE]>>,
                          "Shopping", initializeDefaultRules, <<>>,
                          Len(DEFAULT_RULES) + 1).rules}

InitLearn ==
  /\ bankTransactions = <<>>
  /\ receipts = <<>>
  /\ matches = <<>>
  /\ categoryRules \in LearnRuleLists
  /\ showTrainingDialog = 0
  /\ clock = Len(DEFAULT_RULES) + 1
  /\ pc = "input"
  /\ call \in [transaction: LearnOnceTxns, receipt: LearnReceipts,
               approvedCategory: ApprovedCategories, trainingFeedback: DirectiveFeedbacks]

LearnOnceCall ==
  /\ pc = "input"
  /\ \E learnt \in {learnFromApprovedMatch(call.transaction, call.receipt, call.approvedCategory,
                                           categoryRules, call.trainingFeedback, clock + 1)} :
       /\ categoryRules' = learnt.rules
       /\ call' = [transaction |-> call.transaction, receipt |-> call.receipt,
                   approvedCategory |-> call.approvedCategory,
                   trainingFeedback |-> call.trainingFeedback,
                   ruleIndex |-> learnedRuleIndex(call.transaction, call.receipt,
                                                  call.approvedCategory, categoryRules,
                                                  call.trainingFeedback),
                   existingRules |-> learnt.existing]
  /\ clock' = clock + 1
  /\ pc' = "learnFromApprovedMatch"
  /\ UNCHANGED <<bankTransactions, receipts, matches, showTrainingDialog>>

NextLearn == LearnOnceCall

SpecLearn == InitLearn /\ [][NextLearn]_vars

\* the call pushed a new rule
CreatedNewRule ==
  /\ pc = "learnFromApprovedMatch"
  /\ call.ruleIndex = Len(call.existingRules) + 1
  /\ Len(categoryRules) = call.ruleIndex

\* C14: the confidence of a newly created rule is min(0.95, base + 0.1 when
\* the feedback marks the transaction as recurring + 0.05 when it is bulk
\* training that applies to similar transactions), with base 0.5 / 0.7 / 0.9
\* for the confidence levels low / medium or absent / high; it is never above
\* 0.95 and never below 0.5
C14_NewRuleConfidence ==
  CreatedNewRule =>
    LET f == call.trainingFeedback
        base == IF includes(f, S_ConfidenceHigh) THEN 90
                ELSE IF includes(f, S_ConfidenceLow) THEN 50 ELSE 70
        recurring == IF includes(f, S_ThisIsRecurring) \/ includes(f, S_TheseAreRecurring)
                     THEN 10 ELSE 0
        bulk == IF includes(f, S_BULK_TRAINING_MARK) /\ includes(f, S_ApplyToSimilar)
                THEN 5 ELSE 0
        confidence == categoryRules[call.ruleIndex].confidence
    IN /\ confidence = Min(95, base + recurring + bulk)
       /\ confidence <= 95
       /\ confidence >= 50

\* a rule was created from bulk training feedback with high confidence, the
\* recurring mark and apply-to-similar: 0.9 + 0.1 + 0.05 capped to 0.95
C14_Witness ==
  /\ CreatedNewRule
  /\ includes(call.trainingFeedback, S_ConfidenceHigh)
  /\ includes(call.trainingFeedback, S_ThisIsRecurring)
  /\ includes(call.trainingFeedback, S_BULK_TRAINING_MARK)
  /\ includes(call.trainingFeedback, S_ApplyToSimilar)
  /\ categoryRules[call.ruleIndex].confidence = 95

----------------------------------------------------------------------------
(* Properties of the application: batches, stored matches, rejections *)

\* C24: after handleBulkApprove over N >= 2 pending high-confidence matches,
\* every bank transaction of the batch and every receipt suggested for one is
\* stored with matched = true
C24_BulkApproveMarksEveryPair ==
  [][(pc' = "handleBulkApprove" /\ Len(call'.batch) >= 2) =>
       \A k \in 1..Len(call'.batch) :
         LET m == matches[findMatchIndex(matches, call'.batch[k])]
         IN /\ storedTxnAfter(call'.batch[k]).matched
            /\ storedReceiptAfter(m.suggestedReceipt[1].id).matched]_vars

\* C27: handleMatchUpdate with status 'rejected' leaves the bank transaction
\* collection, the receipt collection and the rule list as they were: no
\* matched flag is set, no category is written and nothing is learnt
C27_RejectionChangesOnlyTheMatch ==
  [][(pc' = "handleMatchUpdate" /\ call'.status = "rejected") =>
       /\ bankTransactions' = bankTransactions
       /\ receipts' = receipts
       /\ categoryRules' = categoryRules]_vars

\* a pending match with a suggested receipt was rejected: its entry is
\* rejected, and the transaction and the receipt are stored unmatched
C27_Witness ==
  /\ pc = "handleMatchUpdate"
  /\ call.status = "rejected"
  /\ \E k \in 1..Len(matches) :
       /\ matches[k].bankTransaction.id = call.matchId
       /\ matches[k].status = "rejected"
       /\ matches[k].suggestedReceipt # NoReceipt
       /\ ~bankTransactions[findIndexById(bankTransactions, call.matchId)].matched
       /\ ~receipts[findIndexById(receipts, matches[k].suggestedReceipt[1].id)].matched

\* no two matched bank transactions carry the same matchedReceiptId
NoSharedReceipt ==
  \A i, j \in 1..Len(bankTransactions) :
    (i # j /\ bankTransactions[i].matched /\ bankTransactions[j].matched)
      => bankTransactions[i].matchedReceiptId # bankTransactions[j].matchedReceiptId

\* transaction i is matched after the step, and was not matched to that
\* receipt before it
NewlyMatched(i) ==
  /\ bankTransactions'[i].matched
  /\ LET k == findIndexById(bankTransactions, bankTransactions'[i].id)
     IN \/ k = 0
        \/ ~bankTransactions[k].matched
        \/ bankTransactions[k].matchedReceiptId # bankTransactions'[i].matchedReceiptId

----------------------------------------------------------------------------
(* Properties of learnFromApprovedMatch as a function of its arguments *)

\* the category the transaction or the receipt of the call carried: the
\* transaction's when it has one, the receipt's otherwise
OldCategory(c) ==
  IF c.transaction.category # "" THEN c.transaction.category
  ELSE IF c.receipt = <<>> THEN "" ELSE c.receipt[1].category

\* rule shares a keyword, or the merchant pattern, with the evidence of the call
SharesEvidence(c, rule) ==
  LET allKeywords == allKeywordsOf(c.transaction, c.receipt, c.trainingFeedback)
      merchantName == merchantNameOf(c.receipt)
  IN \/ \E k \in 1..Len(allKeywords), j \in 1..Len(rule.keywords) :
          rule.keywords[j] = allKeywords[k]
     \/ /\ merchantName # <<>>
        /\ \E p \in 1..Len(rule.patterns) :
             includes(rule.patterns[p], toLowerCase(merchantName))

\* C21: when the transaction or receipt carried a category different from the
\* approved one, learnFromApprovedMatch returns every rule of that old
\* category at its position; a rule that shares a keyword or the merchant
\* pattern with the new evidence has its confidence lowered by exactly 0.1 but
\* not below 0.3 and its correctionCount incremented by 1, a rule that shares
\* no evidence keeps its confidence
C21_OldCategoryRulesPenalized ==
  [][(pc' = "learnFromApprovedMatch" /\ OldCategory(call') # ""
        /\ OldCategory(call') # call'.approvedCategory) =>
       \A i \in 1..Len(categoryRules) :
         categoryRules[i].category = OldCategory(call') =>
           /\ i <= Len(categoryRules')
           /\ categoryRules'[i].id = categoryRules[i].id
           /\ categoryRules'[i].category = categoryRules[i].category
           /\ IF SharesEvidence(call', categoryRules[i])
              THEN /\ categoryRules'[i].confidence
                        = Max(30, categoryRules[i].confidence - 10)
                   /\ categoryRules'[i].confidence >= 30
                   /\ categoryRules'[i].metadata.correctionCount
                        = categoryRules[i].metadata.correctionCount + 1
              ELSE categoryRules'[i].confidence = categoryRules[i].confidence]_vars

\* a Swiggy receipt categorized Food & Dining was approved as Shopping while
\* the Food & Dining rule stood at 0.3 after six corrections: the rule stays
\* at 0.3 with a seventh correction counted
C21_Witness ==
  /\ pc = "learnFromApprovedMatch"
  /\ OldCategory(call) = "Food & Dining"
  /\ call.approvedCategory = "Shopping"
  /\ categoryRules[1].category = "Food & Dining"
  /\ SharesEvidence(call, categoryRules[1])
  /\ categoryRules[1].confidence = 30
  /\ categoryRules[1].metadata.correctionCount = 7

\* the call found a user-created rule of the approved category that shares a
\* keyword or pattern with the new evidence, and enhanced it
EnhancesRule(c, rules) ==
  /\ c.ruleIndex \in 1..Len(rules)
  /\ rules[c.ruleIndex].createdBy = "user"
  /\ rules[c.ruleIndex].category = c.approvedCategory

\* the values of a list
Range(list) == {list[j] : j \in 1..Len(list)}

\* C22 as stated: the enhancement keeps the length of the rule list and the
\* id and position of the rule, adds exactly 1 to usageCount, sets confidence
\* to max(old, new) capped at 0.95, leaves at most 15 keywords and at most 10
\* patterns, and removes no keyword or pattern the rule already had
C22_EnhancedInPlaceNothingRemoved ==
  [][(pc' = "learnFromApprovedMatch" /\ EnhancesRule(call', categoryRules)) =>
       LET old == categoryRules[call'.ruleIndex]
           new == categoryRules'[call'.ruleIndex]
       IN /\ Len(categoryRules') = Len(categoryRules)
          /\ new.id = old.id
          /\ new.usageCount = old.usageCount + 1
          /\ new.confidence = Min(95, Max(old.confidence, baseConfidenceOf(call'.trainingFeedback)))
          /\ Len(new.keywords) <= 15
          /\ Len(new.patterns) <= 10
          /\ Range(old.keywords) \subseteq Range(new.keywords)
          /\ Range(old.patterns) \subseteq Range(new.patterns)]_vars

\* C22 as amended: the enhancement keeps the length of the rule list and the
\* id and position of the rule, adds exactly 1 to usageCount and sets
\* confidence to max(old, new) capped at 0.95; the keyword list has at most 15
\* entries and starts with the first 15 keywords the rule had; when the
\* receipt names a merchant the pattern list has at most 10 entries and keeps
\* the first 10 patterns the rule had, and without a merchant name the
\* pattern list is the one the rule had, whatever its length
C22_EnhancedInPlaceWithinCaps ==
  [][(pc' = "learnFromApprovedMatch" /\ EnhancesRule(call', categoryRules)) =>
       LET old == categoryRules[call'.ruleIndex]
           new == categoryRules'[call'.ruleIndex]
       IN /\ Len(categoryRules') = Len(categoryRules)
          /\ new.id = old.id
          /\ new.usageCount = old.usageCount + 1
          /\ new.confidence = Min(95, Max(old.confidence, baseConfidenceOf(call'.trainingFeedback)))
          /\ Len(new.keywords) <= 15
          /\ Len(new.keywords) >= Min(15, Len(old.keywords))
          /\ \A j \in 1..Min(15, Len(old.keywords)) : new.keywords[j] = old.keywords[j]
          /\ IF call'.receipt # <<>> /\ call'.receipt[1].merchant # <<>>
             THEN /\ Len(new.patterns) <= 10
                  /\ \A j \in 1..Min(10, Len(old.patterns)) :
                       old.patterns[j] \in Range(new.patterns)
             ELSE new.patterns = old.patterns]_vars

\* the rule added in the rules manager with sixteen keywords and eleven
\* patterns was enhanced from a Swiggy receipt: fifteen keywords and ten
\* patterns are left
C22_Witness ==
  /\ pc = "learnFromApprovedMatch"
  /\ call.ruleIndex = Len(DEFAULT_RULES) + 1
  /\ Len(categoryRules) = Len(DEFAULT_RULES) + 1
  /\ call.receipt # <<>>
  /\ categoryRules[call.ruleIndex].usageCount = 1
  /\ Len(categoryRules[call.ruleIndex].keywords) = 15
  /\ Len(categoryRules[call.ruleIndex].patterns) = 10

----------------------------------------------------------------------------
(* The training dialogs: the feedback string built by
   TransactionMatching.handleApproveWithTraining and by
   BulkTraining.handleBulkApprove, handed to learnFromApprovedMatch *)

S_ConfidenceLevelPrefix == <<"C","o","n","f","i","d","e","n","c","e"," ","l","e","v","e","l",":"," ">>
S_ConfidencePrefix == <<"C","o","n","f","i","d","e","n","c","e",":"," ">>
S_MarkAsRecurring == <<"M","a","r","k"," ","a","s"," ","r","e","c","u","r","r","i","n","g"," ","t","r","a","n","s","a","c","t","i","o","n","s">>
S_MonthlyLunch == <<"m","o","n","t","h","l","y"," ","l","u","n","c","h">>

\* the text of a confidence level in a template string
levelText(confidence) ==
  IF confidence = "low" THEN <<"l","o","w">>
  ELSE IF confidence = "high" THEN <<"h","i","g","h">>
  ELSE <<"m","e","d","i","u","m">>

\* enhancedFeedback of handleApproveWithTraining; trainingInfo is
\* trainingOptions[matchId], absent while no option of the dialog was changed
individualTrainingFeedback(userFeedback, trainingInfo) ==
  IF trainingInfo = <<>> THEN userFeedback
  ELSE LET trainingDetails ==
             (IF trainingInfo[1].createRule THEN <<S_CreateNewRule>> ELSE <<>>)
             \o (IF trainingInfo[1].isRecurring THEN <<S_ThisIsRecurring>> ELSE <<>>)
             \o <<S_ConfidenceLevelPrefix \o levelText(trainingInfo[1].confidence)>>
       IN trim(userFeedback \o <<" ">> \o S_TRAINING_MARK \o <<" ">>
               \o join(trainingDetails) \o <<"]">>)

\* enhancedFeedback of BulkTraining.handleBulkApprove
bulkTrainingFeedback(feedback, trainingOptions) ==
  LET trainingDetails ==
        (IF trainingOptions.createRule THEN <<S_CreateBulkRules>> ELSE <<>>)
        \o (IF trainingOptions.isRecurring THEN <<S_MarkAsRecurring>> ELSE <<>>)
        \o (IF trainingOptions.applyToSimilar THEN <<S_ApplyToSimilar>> ELSE <<>>)
        \o <<S_ConfidencePrefix \o levelText(trainingOptions.confidence)>>
  IN trim(feedback \o <<" ">> \o S_BULK_TRAINING_MARK \o <<" ">>
          \o join(trainingDetails) \o <<"]">>)

ConfidenceLevels == {"low", "medium", "high"}

IndividualTrainingOptions ==
  {<<>>} \cup {<<o>> : o \in [createRule: BOOLEAN, isRecurring: BOOLEAN,
                               confidence: ConfidenceLevels]}

BulkTrainingOptions ==
  [createRule: BOOLEAN, isRecurring: BOOLEAN, confidence: ConfidenceLevels,
   applyToSimilar: BOOLEAN]

UserFeedbacks == {<<>>, S_MonthlyLunch}

InitTraining ==
  /\ bankTransactions = <<>>
  /\ receipts = <<>>
  /\ matches = <<>>
  /\ categoryRules \in {initializeDefaultRules, ManagedRules}
  /\ showTrainingDialog = 0
  /\ clock = Len(DEFAULT_RULES) + 1
  /\ pc = "input"
  /\ call \in [dialog: {"individual"}, trainingOptions: IndividualTrainingOptions,
                feedback: UserFeedbacks, transaction: LearnTxns, receipt: LearnReceipts,
                approvedCategory: ApprovedCategories]
         \cup [dialog: {"bulk"}, trainingOptions: BulkTrainingOptions,
                feedback: UserFeedbacks, transaction: LearnTxns, receipt: LearnReceipts,
                approvedCategory: ApprovedCategories]

\* the approval reaches learnFromApprovedMatch with the feedback as notes
TrainingApproval(enhancedFeedback, handler) ==
  /\ \E learnt \in {learnFromApprovedMatch(call.transaction, call.receipt, call.approvedCategory,
                                           categoryRules, enhancedFeedback, clock + 1)} :
       /\ categoryRules' = learnt.rules
       /\ call' = [dialog |-> call.dialog, trainingOptions |-> call.trainingOptions,
                   feedback |-> call.feedback, transaction |-> call.transaction,
                   receipt |-> call.receipt, approvedCategory |-> call.approvedCategory,
                   trainingFeedback |-> enhancedFeedback,
                   ruleIndex |-> learnedRuleIndex(call.transaction, call.receipt,
                                                  call.approvedCategory, categoryRules,
                                                  enhancedFeedback),
                   existingRules |-> learnt.existing]
  /\ clock' = clock + 1
  /\ pc' = handler
  /\ UNCHANGED <<bankTransactions, receipts, matches, showTrainingDialog>>

HandleApproveWithTraining ==
  /\ pc = "input"
  /\ call.dialog = "individual"
  /\ TrainingApproval(individualTrainingFeedback(call.feedback, call.trainingOptions),
                      "handleApproveWithTraining")

BulkTrainingHandleBulkApprove ==
  /\ pc = "input"
  /\ call.dialog = "bulk"
  /\ TrainingApproval(bulkTrainingFeedback(call.feedback, call.trainingOptions),
                      "BulkTraining.handleBulkApprove")

NextTraining == HandleApproveWithTraining \/ BulkTrainingHandleBulkApprove

SpecTraining == InitTraining /\ [][NextTraining]_vars

\* the base confidence the claim gives to a confidence level
LevelBase(confidence) ==
  IF confidence = "low" THEN 50 ELSE IF confidence = "high" THEN 90 ELSE 70

\* the approval pushed a new rule
TrainingCreatedRule ==
  /\ pc \in {"handleApproveWithTraining", "BulkTraining.handleBulkApprove"}
  /\ call.ruleIndex = Len(call.existingRules) + 1
  /\ Len(categoryRules) = call.ruleIndex

\* C23: the rule created by an approval through the individual training
\* dialog with confidence level low, medium or high selected has base
\* confidence 0.5, 0.7 or 0.9, plus 0.1 when the recurring box is checked; the
\* rule created by an approval through the bulk training dialog has the 0.1
\* recurring boost when its recurring box is checked (sums capped at 0.95)
C23_DialogOptionsReachLearning ==
  TrainingCreatedRule =>
    LET confidence == categoryRules[call.ruleIndex].confidence
    IN /\ (call.dialog = "individual" /\ call.trainingOptions # <<>>) =>
            confidence = Min(95, LevelBase(call.trainingOptions[1].confidence)
                                   + IF call.trainingOptions[1].isRecurring THEN 10 ELSE 0)
       /\ call.dialog = "bulk" =>
            confidence = Min(95, Min(95, LevelBase(call.trainingOptions.confidence)
                                           + IF call.trainingOptions.isRecurring THEN 10 ELSE 0)
                                   + IF call.trainingOptions.applyToSimilar THEN 5 ELSE 0)

\* the reviewer changed an option of the dialog and left "create rule"
\* unchecked: the feedback carries a training marker and no create directive
CreateRuleUnchecked(c) ==
  \/ c.dialog = "individual" /\ c.trainingOptions # <<>> /\ ~c.trainingOptions[1].createRule
  \/ c.dialog = "bulk" /\ ~c.trainingOptions.createRule

\* C28: when the feedback carries a training marker but no create-rule
\* directive, learnFromApprovedMatch neither appends a rule nor enhances one:
\* the returned list has the same rules with the same keywords, patterns and
\* usageCount as the input
C28_NoRuleWithoutCreateDirective ==
  [][(pc' \in {"handleApproveWithTraining", "BulkTraining.handleBulkApprove"}
        /\ CreateRuleUnchecked(call')) =>
       /\ Len(categoryRules') = Len(categoryRules)
       /\ \A i \in 1..Len(categoryRules) :
            /\ categoryRules'[i].id = categoryRules[i].id
            /\ categoryRules'[i].keywords = categoryRules[i].keywords
            /\ categoryRules'[i].patterns = categoryRules[i].patterns
            /\ categoryRules'[i].usageCount = categoryRules[i].usageCount]_vars

----------------------------------------------------------------------------
(* ReceiptUpload.handleFiles: the files of one selection are processed one
   after the other, each after its OCR job, from the closure of the render in
   which they were selected *)

\* files of one selection, and events of a run
MaxFiles == 3
MaxUploadEvents == 6

UploadClockLeft == clock < Len(DEFAULT_RULES) + MaxUploadEvents

NoUpload == <<>>

InitUpload ==
  /\ bankTransactions = <<>>
  /\ receipts \in {<<>>, demoReceipts}
  /\ matches = <<>>
  /\ categoryRules = initializeDefaultRules
  /\ showTrainingDialog = 0
  /\ clock = Len(DEFAULT_RULES)
  /\ pc = "rendered"
  /\ call = NoUpload

\* handleFiles(files) up to its first await: closure is the receipts prop of
\* the render the callback was made in
HandleFilesStarted ==
  /\ pc \in {"rendered", "uploaded"}
  /\ UploadClockLeft
  /\ \E k \in 1..MaxFiles :
       call' = [closure |-> receipts, files |-> k, added |-> <<>>,
                failed |-> FALSE, disturbed |-> FALSE]
  /\ pc' = "handleFiles"
  /\ clock' = clock + 1
  /\ UNCHANGED <<bankTransactions, receipts, matches, categoryRules, showTrainingDialog>>

\* where handleFiles goes after a file: the next await, or its end
afterFile(upload) == IF upload.files = 1 THEN "uploaded" ELSE "handleFiles"

\* the OCR job of the next file succeeded:
\* onReceiptsUpdate([...receipts, receipt])
FileProcessed ==
  /\ pc = "handleFiles"
  /\ \E r \in ScannedReceipts :
       LET receipt == [r EXCEPT !.id = clock + 1]
       IN /\ receipts' = Append(call.closure, receipt)
          /\ call' = [call EXCEPT !.files = @ - 1, !.added = Append(@, receipt.id)]
  /\ pc' = afterFile(call)
  /\ clock' = clock + 1
  /\ UNCHANGED <<bankTransactions, matches, categoryRules, showTrainingDialog>>

\* the OCR job of the next file failed: the catch block, no update
FileFailed ==
  /\ pc = "handleFiles"
  /\ call' = [call EXCEPT !.files = @ - 1, !.failed = TRUE]
  /\ pc' = afterFile(call)
  /\ clock' = clock + 1
  /\ UNCHANGED <<bankTransactions, receipts, matches, categoryRules, showTrainingDialog>>

\* removeReceipt(receiptId), possibly while an upload awaits its OCR job
RemoveReceipt ==
  /\ UploadClockLeft
  /\ \E i \in 1..Len(receipts) :
       receipts' = SelectSeq(receipts, LAMBDA r : r.id # receipts[i].id)
  /\ call' = IF pc = "handleFiles" THEN [call EXCEPT !.disturbed = TRUE] ELSE call
  /\ clock' = clock + 1
  /\ UNCHANGED <<bankTransactions, matches, categoryRules, showTrainingDialog, pc>>

NextUpload == HandleFilesStarted \/ FileProcessed \/ FileFailed \/ RemoveReceipt

SpecUpload == InitUpload /\ [][NextUpload]_vars

\* C25: when k >= 2 files were selected in one upload and every OCR job
\* succeeded, the receipt collection after the last file holds every receipt
\* that existed before the upload and every one of the k new receipts
C25_UploadKeepsEveryReceipt ==
  (pc = "uploaded" /\ Len(call.added) >= 2 /\ ~call.failed /\ ~call.disturbed) =>
    /\ \A j \in 1..Len(call.closure) : findIndexById(receipts, call.closure[j].id) # 0
    /\ \A j \in 1..Len(call.added) : findIndexById(receipts, call.added[j]) # 0

----------------------------------------------------------------------------
(* lib/parser: parseCSV, header inference and amount normalization *)

\* A number is the integer num scaled by 10^-scale (the decimal digits are
\* kept exactly), or NaN
NaN == [isNaN |-> TRUE, num |-> 0, scale |-> 0]

DigitValue ==
  [c \in {"0", "1", "2", "3", "4", "5", "6", "7", "8", "9"} |->
     CASE c = "0" -> 0 [] c = "1" -> 1 [] c = "2" -> 2 [] c = "3" -> 3 [] c = "4" -> 4
       [] c = "5" -> 5 [] c = "6" -> 6 [] c = "7" -> 7 [] c = "8" -> 8 [] c = "9" -> 9]

IsDigit(c) == c \in DOMAIN DigitValue

\* /[^0-9.-]/ : the characters the cleaning keeps
IsNumericChar(c) == IsDigit(c) \/ c = "." \/ c = "-"

\* length of the run of digits of s that starts at position i
DigitRun(s, i) ==
  CHOOSE k \in 0..Max(0, Len(s) - i + 1) :
    /\ \A j \in i..(i + k - 1) : IsDigit(s[j])
    /\ i + k > Len(s) \/ ~IsDigit(s[i + k])

RECURSIVE digitsToInt(_)
digitsToInt(digits) ==
  IF digits = <<>> THEN 0
  ELSE 10 * digitsToInt(SubSeq(digits, 1, Len(digits) - 1)) + DigitValue[digits[Len(digits)]]

\* parseFloat on a string of digits, dots and minus signs: an optional sign,
\* digits, an optional dot and digits; what follows is ignored; NaN when
\* there is no digit
parseFloat(s) ==
  LET neg == s # <<>> /\ s[1] = "-"
      i0  == IF neg THEN 2 ELSE 1
      ni  == DigitRun(s, i0)
      dot == i0 + ni <= Len(s) /\ s[i0 + ni] = "."
      nf  == IF dot THEN DigitRun(s, i0 + ni + 1) ELSE 0
      mag == digitsToInt(SubSeq(s, i0, i0 + ni - 1) \o SubSeq(s, i0 + ni + 1, i0 + ni + nf))
  IN IF ni + nf = 0 THEN NaN
     ELSE [isNaN |-> FALSE, num |-> IF neg THEN 0 - mag ELSE mag, scale |-> nf]

\* a missing cell (undefined) and the empty cell are both <<>>
toNumberOrNaN(v) ==
  IF trim(v) = <<>> THEN NaN
  ELSE IF SelectSeq(trim(v), IsNumericChar) = <<>> THEN NaN
  ELSE parseFloat(SelectSeq(trim(v), IsNumericChar))

IsNonZeroNumber(n) == ~n.isNaN /\ n.num # 0

\* Math.abs
AbsNumber(n) == IF n.isNaN THEN NaN ELSE [n EXCEPT !.num = Abs(n.num)]

\* mutant of normalizeAmount: the debit column is preferred to the credit column
normalizeAmount_DebitBeforeCredit(amountStr, debitStr, creditStr) ==
  LET a == toNumberOrNaN(amountStr)
      c == toNumberOrNaN(creditStr)
      d == toNumberOrNaN(debitStr)
  IN AbsNumber(IF IsNonZeroNumber(a) THEN a
               ELSE IF IsNonZeroNumber(d) THEN d
               ELSE IF IsNonZeroNumber(c) THEN c ELSE NaN)

normalizeAmount(amountStr, debitStr, creditStr) ==
  LET a == toNumberOrNaN(amountStr)
      c == toNumberOrNaN(creditStr)
      d == toNumberOrNaN(debitStr)
  IN AbsNumber(IF IsNonZeroNumber(a) THEN a
               ELSE IF IsNonZeroNumber(c) THEN c
               ELSE IF IsNonZeroNumber(d) THEN d ELSE NaN)

RECURSIVE joinWords(_)
joinWords(words) ==
  IF Len(words) = 0 THEN <<>>
  ELSE IF Len(words) = 1 THEN words[1]
  ELSE words[1] \o <<" ">> \o joinWords(Tail(words))

\* (h || '').toString().trim().toLowerCase().replace(/\s+/g, ' ')
normalizeHeader(h) == joinWords(split(toLowerCase(trim(h))))

\* index (from 1) of the first header equal to a candidate, candidates in
\* order; else of the first header that contains a candidate; else 0 (-1)
findHeaderIndex(headers, candidates) ==
  IF \E c \in 1..Len(candidates) : arrayIncludes(headers, candidates[c])
  THEN LET c == MinOf({k \in 1..Len(candidates) : arrayIncludes(headers, candidates[k])})
       IN MinOf({i \in 1..Len(headers) : headers[i] = candidates[c]})
  ELSE IF \E i \in 1..Len(headers) : \E c \in 1..Len(candidates) : includes(headers[i], candidates[c])
  THEN MinOf({i \in 1..Len(headers) : \E c \in 1..Len(candidates) : includes(headers[i], candidates[c])})
  ELSE 0

computeHeaderIndices(headers) ==
  [date |-> findHeaderIndex(headers,
      <<<<"d","a","t","e">>,
      <<"t","x","n"," ","d","a","t","e">>,
      <<"t","r","a","n","s","a","c","t","i","o","n"," ","d","a","t","e">>,
      <<"v","a","l","u","e"," ","d","a","t","e">>,
      <<"d","a","t","e"," ","o","f"," ","t","r","a","n","s","a","c","t","i","o","n">>,
      <<"p","o","s","t","i","n","g"," ","d","a","t","e">>,
      <<"d","a","t","e"," ","p","o","s","t","e","d">>>>),
   amount |-> findHeaderIndex(headers,
      <<<<"a","m","o","u","n","t">>,
      <<"t","r","a","n","s","a","c","t","i","o","n"," ","a","m","o","u","n","t">>,
      <<"a","m","t">>,
      <<"a","m","o","u","n","t"," ","(","i","n","r",")">>,
      <<"i","n","r"," ","a","m","o","u","n","t">>>>),
   debit |-> findHeaderIndex(headers,
      <<<<"d","e","b","i","t">>,
      <<"d","e","b","i","t"," ","a","m","t">>,
      <<"d","e","b","i","t"," ","a","m","o","u","n","t">>,
      <<"w","i","t","h","d","r","a","w","a","l">>,
      <<"w","i","t","h","d","r","a","w","a","l"," ","a","m","o","u","n","t">>,
      <<"d","r">>>>),
   credit |-> findHeaderIndex(headers,
      <<<<"c","r","e","d","i","t">>,
      <<"c","r","e","d","i","t"," ","a","m","t">>,
      <<"c","r","e","d","i","t"," ","a","m","o","u","n","t">>,
      <<"d","e","p","o","s","i","t">>,
      <<"d","e","p","o","s","i","t"," ","a","m","o","u","n","t">>,
      <<"c","r">>>>),
   description |-> findHeaderIndex(headers,
      <<<<"d","e","s","c","r","i","p","t","i","o","n">>,
      <<"d","e","s","c">>,
      <<"n","a","r","r","a","t","i","o","n">>,
      <<"r","e","m","a","r","k","s">>,
      <<"p","a","r","t","i","c","u","l","a","r","s">>,
      <<"d","e","t","a","i","l","s">>>>),
   utr |-> findHeaderIndex(headers,
      <<<<"u","t","r">>,
      <<"r","e","f","e","r","e","n","c","e">>,
      <<"r","e","f","e","r","e","n","c","e"," ","n","o">>,
      <<"r","e","f">>,
      <<"r","e","f"," ","n","o">>,
      <<"t","r","a","n","s","a","c","t","i","o","n"," ","i","d">>,
      <<"t","x","n"," ","i","d">>,
      <<"u","p","i"," ","t","r","a","n","s","a","c","t","i","o","n"," ","i","d">>>>)]

\* '' for an unresolved column, undefined (also <<>>) past the end of the row
pick(arr, idx) == IF idx < 1 \/ idx > Len(arr) THEN <<>> ELSE arr[idx]

RECURSIVE splitLinesFrom(_, _)
\* csvText.split('\n')
splitLinesFrom(s, i) ==
  LET breaks == {j \in i..Len(s) : s[j] = "\n"}
  IN IF breaks = {} THEN <<SubSeq(s, i, Len(s))>>
     ELSE <<SubSeq(s, i, MinOf(breaks) - 1)>> \o splitLinesFrom(s, MinOf(breaks) + 1)

IsNotBlank(line) == trim(line) # <<>>

\* lines[i].split(',').map(v => v.trim())
rowValues(line) ==
  [k \in 1..Len(splitCommaFrom(line, 1)) |-> trim(splitCommaFrom(line, 1)[k])]

\* pick(values, idx.description) || values[1] || ''
rowDescription(values, idx) ==
  IF pick(values, idx.description) # <<>> THEN pick(values, idx.description)
  ELSE pick(values, 2)

rowAmount(values, idx) ==
  normalizeAmount(pick(values, idx.amount), pick(values, idx.debit), pick(values, idx.credit))

\* the row is pushed: it is long enough, has a date cell and a positive amount
rowIsKept(values, idx) ==
  /\ Len(values) >= 2
  /\ pick(values, idx.date) # <<>>
  /\ ~rowAmount(values, idx).isNaN
  /\ rowAmount(values, idx).num > 0

RECURSIVE parseRowsFrom(_, _, _)
\* the loop over lines[i] for the 0-based i >= 1 of the source, which is
\* position i + 1 here; row is the i of the id `bank_${Date.now()}_${i}`.
\* The date, utr, vpa and city of the pushed record are not part of this model.
parseRowsFrom(lines, idx, i) ==
  IF i + 1 > Len(lines) THEN <<>>
  ELSE (IF rowIsKept(rowValues(lines[i + 1]), idx)
        THEN <<[row |-> i,
                amount |-> rowAmount(rowValues(lines[i + 1]), idx),
                description |-> rowDescription(rowValues(lines[i + 1]), idx)]>>
        ELSE <<>>)
       \o parseRowsFrom(lines, idx, i + 1)

parseCSV(csvText) ==
  LET lines == SelectSeq(splitLinesFrom(csvText, 1), IsNotBlank)
  IN IF Len(lines) = 0 THEN <<>>
     ELSE parseRowsFrom(lines,
                        computeHeaderIndices([h \in 1..Len(splitCommaFrom(lines[1], 1)) |->
                                                normalizeHeader(splitCommaFrom(lines[1], 1)[h])]),
                        1)

----------------------------------------------------------------------------
(* parseCSV as a function of the statement text *)

S_Header_AmountCreditDebit == <<"D","a","t","e",",","D","e","s","c","r","i","p","t","i","o","n",",","A","m","o","u","n","t",",","C","r","e","d","i","t",",","D","e","b","i","t">>
S_Header_WithdrawalDeposit == <<"T","x","n"," ","D","a","t","e",",","N","a","r","r","a","t","i","o","n",",","W","i","t","h","d","r","a","w","a","l"," ","A","m","t",",","D","e","p","o","s","i","t"," ","A","m","t">>
S_Date_2024_01_15 == <<"2","0","2","4","-","0","1","-","1","5">>
S_Cell_0 == <<"0">>
S_Cell_500 == <<"5","0","0">>
S_Cell_Minus250_50 == <<"-","2","5","0",".","5","0">>
S_Cell_0_00 == <<"0",".","0","0">>
S_Cell_NA == <<"N","/","A">>

CsvHeaders == {S_Header_AmountCreditDebit, S_Header_WithdrawalDeposit}

CsvAmountCells == {<<>>, S_Cell_0, S_Cell_500, S_Cell_Minus250_50, S_Cell_0_00, S_Cell_NA}

CsvDateCells == {<<>>, S_Date_2024_01_15}

\* the rows that fit a header: a date, a description and one cell for each
\* of its amount columns
CsvRowsFor(header) ==
  IF header = S_Header_AmountCreditDebit
  THEN {<<d, S_UPI_SWIGGY, a, c, b>> : d \in CsvDateCells, a \in CsvAmountCells,
                                       c \in CsvAmountCells, b \in CsvAmountCells}
  ELSE {<<d, S_UPI_SWIGGY, w, c>> : d \in CsvDateCells, w \in CsvAmountCells, c \in CsvAmountCells}

\* a first row that is kept
CsvLeadRowFor(header) ==
  IF header = S_Header_AmountCreditDebit
  THEN <<S_Date_2024_01_15, S_UPI, S_Cell_500, <<>>, <<>> >>
  ELSE <<S_Date_2024_01_15, S_UPI, S_Cell_500, <<>> >>

RECURSIVE joinCells(_)
joinCells(cells) ==
  IF Len(cells) = 0 THEN <<>>
  ELSE IF Len(cells) = 1 THEN cells[1]
  ELSE cells[1] \o <<",">> \o joinCells(Tail(cells))

RECURSIVE csvTextOf(_, _)
\* the header line followed by one line for each row
csvTextOf(header, rows) ==
  IF rows = <<>> THEN header
  ELSE csvTextOf(header, SubSeq(rows, 1, Len(rows) - 1)) \o <<"\n">> \o joinCells(rows[Len(rows)])

CsvInputs ==
  {[header |-> h, rows |-> rows, csvText |-> csvTextOf(h, rows)] :
     <<h, rows>> \in UNION {{<<hh, <<r>> >> : r \in CsvRowsFor(hh)} \cup
                             {<<hh, <<CsvLeadRowFor(hh), r>> >> : r \in CsvRowsFor(hh)} : hh \in CsvHeaders}}

InitParse ==
  /\ bankTransactions = <<>>
  /\ receipts = <<>>
  /\ matches = <<>>
  /\ categoryRules = <<>>
  /\ showTrainingDialog = 0
  /\ clock = 0
  /\ pc = "input"
  /\ call \in CsvInputs

ParseCSVCall ==
  /\ pc = "input"
  /\ bankTransactions' = parseCSV(call.csvText)
  /\ pc' = "parseCSV"
  /\ UNCHANGED <<receipts, matches, categoryRules, showTrainingDialog, clock, call>>

NextParse == ParseCSVCall

SpecParse == InitParse /\ [][NextParse]_vars

\* the positions of the amount, credit and debit columns under each header:
\* 'withdrawal amt' is the first header containing 'amt' and the only one
\* containing 'withdrawal'
CsvColumns ==
  IF call.header = S_Header_AmountCreditDebit
  THEN [amount |-> 3, credit |-> 4, debit |-> 5]
  ELSE [amount |-> 3, credit |-> 4, debit |-> 3]

\* the numeric value of a cell in hundredths, <<>> when the cell has none
CsvCellValue(cell) ==
  CASE cell = S_Cell_0 -> <<0>>
    [] cell = S_Cell_0_00 -> <<0>>
    [] cell = S_Cell_500 -> <<50000>>
    [] cell = S_Cell_Minus250_50 -> <<0 - 25050>>
    [] OTHER -> <<>>

\* the values of the amount, credit and debit cells of row r, in this order
CsvRowValues(r) ==
  <<CsvCellValue(call.rows[r][CsvColumns.amount]),
    CsvCellValue(call.rows[r][CsvColumns.credit]),
    CsvCellValue(call.rows[r][CsvColumns.debit])>>

CsvNonZero(r) == {k \in 1..3 : CsvRowValues(r)[k] # <<>> /\ CsvRowValues(r)[k][1] # 0}

\* the emitted transactions that come from row r
CsvEmitted(r) == {e \in 1..Len(bankTransactions) : bankTransactions[e].row = r}

RECURSIVE Pow10(_)
Pow10(k) == IF k = 0 THEN 1 ELSE 10 * Pow10(k - 1)

----------------------------------------------------------------------------
(* Header inference as a function of the header row: parseCSV over
   statements with the header rows of common bank exports *)

S_Col_Date == <<"D","a","t","e">>
S_Col_TxnDate == <<"T","x","n"," ","D","a","t","e">>
S_Col_Description == <<"D","e","s","c","r","i","p","t","i","o","n">>
S_Col_Narration == <<"N","a","r","r","a","t","i","o","n">>
S_Col_Particulars == <<"P","a","r","t","i","c","u","l","a","r","s">>
S_Col_Amount == <<"A","m","o","u","n","t">>
S_Col_WithdrawalAmt == <<"W","i","t","h","d","r","a","w","a","l"," ","A","m","t">>
S_Col_DepositAmt == <<"D","e","p","o","s","i","t"," ","A","m","t">>
S_Col_Credit == <<"C","r","e","d","i","t">>
S_Col_Debit == <<"D","e","b","i","t">>
S_Col_UTR == <<"U","T","R">>
S_UPI_42_SWIGGY == <<"U","P","I","/","4","2","/","S","W","I","G","G","Y">>
S_Cell_u1 == <<"u","1">>

HeaderRows ==
  { <<S_Col_Date, S_Col_Description, S_Col_Amount>>,
    <<S_Col_TxnDate, S_Col_Narration, S_Col_WithdrawalAmt, S_Col_DepositAmt>>,
    <<S_Col_Date, S_Col_Description, S_Col_Amount, S_Col_Credit, S_Col_Debit>>,
    <<S_Col_Date, S_Col_Particulars, S_Col_Debit, S_Col_Credit, S_Col_UTR>> }

DateColumns == {S_Col_Date, S_Col_TxnDate}
TextColumns == {S_Col_Description, S_Col_Narration, S_Col_Particulars}

\* the cells a column of a statement holds
ColumnCells(column) ==
  IF column \in DateColumns THEN {S_Date_2024_01_15}
  ELSE IF column \in TextColumns THEN {S_UPI_SWIGGY, S_UPI_42_SWIGGY}
  ELSE IF column = S_Col_UTR THEN {S_Cell_u1}
  ELSE {<<>>, S_Cell_0, S_Cell_500}

RECURSIVE RowsUnder(_)
\* the rows that fit a header row: one cell for each column
RowsUnder(columns) ==
  IF columns = <<>> THEN {<<>>}
  ELSE {<<c>> \o r : c \in ColumnCells(columns[1]), r \in RowsUnder(Tail(columns))}

HeaderInputs ==
  {[columns |-> h, rows |-> <<r>>, csvText |-> csvTextOf(joinCells(h), <<r>>)] :
     <<h, r>> \in UNION {{<<hh, rr>> : rr \in RowsUnder(hh)} : hh \in HeaderRows}}

InitHeaders ==
  /\ bankTransactions = <<>>
  /\ receipts = <<>>
  /\ matches = <<>>
  /\ categoryRules = <<>>
  /\ showTrainingDialog = 0
  /\ clock = 0
  /\ pc = "input"
  /\ call \in HeaderInputs

SpecHeaders == InitHeaders /\ [][NextParse]_vars

\* the indices computeHeaderIndices returns for the header row of the call
\* (1-based, 0 when the role is not resolved)
HeaderIndices ==
  computeHeaderIndices([k \in 1..Len(call.columns) |-> normalizeHeader(call.columns[k])])

HeaderRoles == {"date", "amount", "debit", "credit", "description", "utr"}

\* the columns of the header row that hold text, not amounts
TextColumnIndices == {k \in 1..Len(call.columns) : call.columns[k] \in TextColumns}

\* C30: the indices computeHeaderIndices resolves for date, amount, debit,
\* credit, description and utr are pairwise distinct; the credit and debit
\* roles are never resolved to the description column, and no row is emitted
\* whose amount, credit and debit cells hold no non-zero number, i.e. no
\* amount is parsed out of the description text
C30_RolesResolveToDistinctColumns ==
  pc = "parseCSV" =>
    /\ \A a, b \in HeaderRoles :
         (a # b /\ HeaderIndices[a] # 0 /\ HeaderIndices[b] # 0)
           => HeaderIndices[a] # HeaderIndices[b]
    /\ HeaderIndices.credit \notin TextColumnIndices
    /\ HeaderIndices.debit \notin TextColumnIndices
    /\ \A e \in 1..Len(bankTransactions) :
         \E k \in 1..Len(call.columns) :
           /\ k \notin TextColumnIndices
           /\ call.rows[bankTransactions[e].row][k] \in {S_Cell_500}

====
